---- MODULE Spec2Model ----
(***************************************************************************)
(* A model of the LiteLLM chat provider for VS Code:                       *)
(*   - tokenUtils.trimMessagesToFitBudget          (specification SpecTrim) *)
(*   - LiteLLMClient.fetchWithRateLimit / fetchWithRetry / sleep            *)
(*                                                  (specification SpecNet) *)
(*   - LiteLLMChatModelProvider.processStreamingResponse / processDelta     *)
(*                                    (specifications SpecFrames, SpecBytes) *)
(* Strings the code scans character by character are sequences of          *)
(* one-character strings.                                                   *)
(***************************************************************************)
EXTENDS Integers, Sequences, FiniteSets, TLC

VARIABLES
    \* ---- trimMessagesToFitBudget: its arguments and its outcome
    messages,        \* the caller's message list
    toolsJsonLen,    \* JSON.stringify(tools).length, 0 when tools is undefined or empty
    model,           \* [id, maxInputTokens, litellm_provider]
    trimOutcome,     \* [status: "pending" | "returned" | "threw", selected]
    \* ---- LiteLLMClient.fetchWithRateLimit, one call
    netOptions,         \* [maxTotalDelayMs, initialDelayMs]: the call's options
    netPc,              \* where the call stands: "idle", "fetching", "retrySleepTry",
                        \* "retrySleepCatch", "rateLimitSleep", "done"
    cancelled,          \* token.isCancellationRequested
    attempt,            \* fetchWithRetry's attempt
    rateLimitAttempt,   \* fetchWithRateLimit's attempt
    cumulativeDelayMs,  \* fetchWithRateLimit's cumulativeDelayMs
    netResult,          \* [kind: "none" | "response" | "cancelled" | "networkError", status]
    fetchCount,         \* history: the calls of fetch() made so far
    rateLimitSleptMs,   \* history: the sum of the delays handed to sleep() after a 429
    retryOutcomes,      \* history: how the fetches of the current fetchWithRetry call
                        \* settled: the status of each response, NetworkFailure for
                        \* a rejection
    lastRound,          \* history: the last 429 round that slept: its Retry-After
                        \* header, attempt and remaining before it, and its delay
    cancelledAt,        \* history: netPc when the token was cancelled, "never" before
    \* ---- LiteLLMChatModelProvider, one response
    provider,        \* the instance's streaming fields and the parts reported so far
    handled,         \* history: the stream lines handled so far
    stream,          \* the bytes of the response body; SpecFrames: its text so far
    deltas,          \* history: the text deltas of the lines handled so far
    pos,             \* the bytes the reader has handed out
    buffer,          \* processStreamingResponse's buffer
    decoderPending,  \* the bytes the TextDecoder holds back
    splitSeen,       \* history: whether a chunk ended inside a line, inside a character
    streamPc,        \* "idle", "lines", "reading", "done", "cancelled"
    \* ---- LiteLLMClient.transformToResponsesFormat, one call
    requestMessages, \* requestBody.messages
    requestTools,    \* [tools, tool_choice] of the request body
    responsesBody,   \* [status: "pending" | "returned", input, instructions, tools,
                     \* tool_choice]
    \* ---- LiteLLMChatModelProvider, one request after the other
    requestNo,       \* history: the calls of provideLanguageModelChatResponse so far
    previous,        \* history: how the request before ended and what it left behind
    \* ---- LiteLLMChatModelProvider, two requests in flight on the instance
    inFlight,        \* per request: [pc, lines, body, parts], parts being what was
                     \* reported to the progress of the request
    \* ---- provideLanguageModelChatResponse, the calls of client.chat of one request
    chatPc,          \* "idle", "start", "built", "first", "retry", "streaming", "done",
                     \* "failed"; "strip", "stripped" for the strip alone
    requestBody,     \* the request body
    chatCalls,       \* history: the bodies client.chat was called with
    tokenCancelled,  \* token.isCancellationRequested
    rejections,      \* history: the errors client.chat rejected with, and whether
                     \* the token was cancelled then
    chatOutcome,     \* [status: "pending" | "returned" | "threw", message]
    modelInfo,       \* this._modelInfoCache.get(model.id)
    modelOptions,    \* the optional parameters options.modelOptions brings
    configUrl,       \* config.url
    strippedFrom     \* history: the body stripUnsupportedParametersFromRequest got

trimVars == <<messages, toolsJsonLen, model, trimOutcome>>

netVars == <<netOptions, netPc, cancelled, attempt, rateLimitAttempt, cumulativeDelayMs,
             netResult, fetchCount, rateLimitSleptMs, lastRound,
             retryOutcomes, cancelledAt>>

streamVars == <<provider, handled, stream, deltas, pos, buffer, decoderPending,
               splitSeen, streamPc>>

transformVars == <<requestMessages, requestTools, responsesBody>>

requestVars == <<requestNo, previous>>

concurrentVars == <<inFlight>>

chatInputs == <<modelInfo, modelOptions, configUrl, strippedFrom>>

chatVars == <<chatPc, requestBody, chatCalls, tokenCancelled, rejections, chatOutcome,
             chatInputs>>

vars == <<trimVars, netVars, streamVars, transformVars, requestVars, concurrentVars,
         chatVars>>

Min(a, b) == IF a < b THEN a ELSE b
Max(a, b) == IF a > b THEN a ELSE b

(***************************************************************************)
(* JavaScript strings, as sequences of one-character strings               *)
(***************************************************************************)

\* s.slice(from, to) with 0-based from (inclusive) and to (exclusive).
Slice(s, from, to) == SubSeq(s, from + 1, to)

\* s.slice(from)
SliceFrom(s, from) == SubSeq(s, from + 1, Len(s))

\* Whether pat stands in s at the 0-based offset i.
MatchesAt(s, pat, i) ==
    /\ i >= 0
    /\ i + Len(pat) <= Len(s)
    /\ \A k \in 1..Len(pat) : s[i + k] = pat[k]

\* s.indexOf(pat): the first 0-based offset of pat in s, -1 when there is none.
IndexOf(s, pat) ==
    LET hits == { i \in 0..(Len(s) - Len(pat)) : MatchesAt(s, pat, i) }
    IN  IF hits = {} THEN -1 ELSE CHOOSE i \in hits : \A j \in hits : i <= j

StartsWith(s, pat) == MatchesAt(s, pat, 0)
EndsWith(s, pat) == MatchesAt(s, pat, Len(s) - Len(pat))

\* s.trim(), for the white space of the model: the blank.
RECURSIVE TrimStart(_)
TrimStart(s) == IF Len(s) > 0 /\ s[1] = " " THEN TrimStart(Tail(s)) ELSE s

RECURSIVE TrimEnd(_)
TrimEnd(s) == IF Len(s) > 0 /\ s[Len(s)] = " " THEN TrimEnd(SubSeq(s, 1, Len(s) - 1)) ELSE s

TrimStr(s) == TrimEnd(TrimStart(s))

\* An absent (undefined) string, and an absent number.
NoStr == <<"undefined">>
NoNum == -1

Digits == <<"0", "1", "2", "3", "4", "5", "6", "7", "8", "9">>
IsDigit(c) == \E d \in 1..10 : Digits[d] = c
DigitValue(c) == (CHOOSE d \in 1..10 : Digits[d] = c) - 1

\* Number(digits)
RECURSIVE StringToNumber(_)
StringToNumber(digits) ==
    IF Len(digits) = 0 THEN 0
    ELSE 10 * StringToNumber(SubSeq(digits, 1, Len(digits) - 1)) + DigitValue(digits[Len(digits)])

\* String(n), n >= 0
RECURSIVE NumberToString(_)
NumberToString(n) ==
    IF n < 10 THEN <<Digits[n + 1]>>
    ELSE NumberToString(n \div 10) \o <<Digits[(n % 10) + 1]>>

UpperCase ==
    <<"A", "B", "C", "D", "E", "F", "G", "H", "I", "J", "K", "L", "M", "N", "O", "P", "Q",
      "R", "S", "T", "U", "V", "W", "X", "Y", "Z">>
LowerCase ==
    <<"a", "b", "c", "d", "e", "f", "g", "h", "i", "j", "k", "l", "m", "n", "o", "p", "q",
      "r", "s", "t", "u", "v", "w", "x", "y", "z">>

LowerOf(c) ==
    IF \E k \in 1..Len(UpperCase) : UpperCase[k] = c
    THEN LowerCase[CHOOSE k \in 1..Len(UpperCase) : UpperCase[k] = c]
    ELSE c

\* s.toLowerCase()
ToLowerCase(s) == [i \in 1..Len(s) |-> LowerOf(s[i])]

\* s.includes(pat)
Includes(s, pat) == IndexOf(s, pat) >= 0

(***************************************************************************)
(* tokenUtils.ts                                                           *)
(***************************************************************************)

\* Bounds of the trimmer's inputs.
MaxMsgs == 4
MaxInputTokens == 6

\* A message part: a LanguageModelTextPart of some length, or any other part.
TextPart(n) == [kind |-> "text", length |-> n]
OtherPart == [kind |-> "other", length |-> 0]

\* The contents a message of the model can have: 0, 1 and 3 estimated tokens.
Contents == { <<OtherPart>>, <<TextPart(3)>>, <<TextPart(5), OtherPart, TextPart(4)>> }

Roles == {"User", "Assistant", "System"}

\* The role and content of the messages of the model.
MessageKinds ==
    { k \in Roles \X Contents :
        \/ k[1] = "User"
        \/ k[1] = "Assistant" /\ k[2] = <<TextPart(3)>>
        \/ k[1] = "System" /\ k[2] # <<OtherPart>> }

\* Messages are JavaScript objects: pos is the object's identity, its place
\* in the caller's list.
MessageLists ==
    UNION { { [i \in 1..n |-> [pos |-> i, role |-> k[i][1], content |-> k[i][2]]] :
                k \in [1..n -> MessageKinds] } : n \in 0..MaxMsgs }

Gpt4o ==
    <<"g", "p", "t", "-", "4", "o">>
ClaudeOpus ==
    <<"C", "l", "a", "u", "d", "e", "-", "3", "-", "o", "p", "u", "s">>
Claude ==
    <<"c", "l", "a", "u", "d", "e">>
Anthropic ==
    <<"a", "n", "t", "h", "r", "o", "p", "i", "c">>

ModelKinds == { <<Gpt4o, "undefined">>, <<Gpt4o, "anthropic">>, <<ClaudeOpus, "undefined">> }

Models == { [id |-> k[1], maxInputTokens |-> t, litellm_provider |-> k[2]] :
              k \in ModelKinds, t \in 0..MaxInputTokens }

\* Math.ceil(n / 4)
CeilDiv4(n) == (n + 3) \div 4

RECURSIVE SumTextTokens(_, _)
SumTextTokens(content, i) ==
    IF i > Len(content) THEN 0
    ELSE (IF content[i].kind = "text" THEN CeilDiv4(content[i].length) ELSE 0)
         + SumTextTokens(content, i + 1)

EstimateSingleMessageTokens(msg) == SumTextTokens(msg.content, 1)

RECURSIVE EstimateMessagesTokensFrom(_, _)
EstimateMessagesTokensFrom(msgs, i) ==
    IF i > Len(msgs) THEN 0
    ELSE EstimateSingleMessageTokens(msgs[i]) + EstimateMessagesTokensFrom(msgs, i + 1)

EstimateMessagesTokens(msgs) == EstimateMessagesTokensFrom(msgs, 1)

EstimateToolTokens(jsonLen) == IF jsonLen = 0 THEN 0 ELSE CeilDiv4(jsonLen)

\* /anthropic/i on the provider, over the providers of Models; /claude/i or
\* /anthropic/i on the model id.
IsAnthropicModel(m) ==
    \/ m.litellm_provider = "anthropic"
    \/ Includes(ToLowerCase(m.id), Claude)
    \/ Includes(ToLowerCase(m.id), Anthropic)

\* Math.floor(tokenLimit * 0.98); exact for the limits of the model, none of
\* which is a multiple of 50.
SafetyLimit(m) ==
    LET tokenLimit == Max(1, m.maxInputTokens)
    IN  IF IsAnthropicModel(m) THEN Max(1, (tokenLimit * 98) \div 100) ELSE tokenLimit

Budget(m, jsonLen) == SafetyLimit(m) - EstimateToolTokens(jsonLen)

IsSystem(msg) == msg.role # "User" /\ msg.role # "Assistant"

\* The first loop: the first system-like message, and the others in order.
SystemIndex(msgs) ==
    IF \E i \in 1..Len(msgs) : IsSystem(msgs[i])
    THEN CHOOSE i \in 1..Len(msgs) :
            IsSystem(msgs[i]) /\ \A j \in 1..(i - 1) : ~IsSystem(msgs[j])
    ELSE 0

Remaining(msgs) ==
    LET s == SystemIndex(msgs)
    IN  [i \in 1..(Len(msgs) - (IF s = 0 THEN 0 ELSE 1)) |->
            IF s = 0 \/ i < s THEN msgs[i] ELSE msgs[i + 1]]

\* Mutants of the loop's test: the running total forgotten; the relaxation
\* for the first kept message forgotten.
KeepsMessageDropUsed(used, msgTokens, budget, nSelected, base) ==
    msgTokens <= budget \/ nSelected = base

KeepsMessageNoRelaxation(used, msgTokens, budget, nSelected, base) ==
    used + msgTokens <= budget

\* The loop's test for keeping remaining[i].

KeepsMessage(used, msgTokens, budget, nSelected, base) ==
    used + msgTokens <= budget \/ nSelected = base

\* Mutant of the second loop: a message that does not fit is skipped and the
\* scan goes on (continue for break).
RECURSIVE SelectFromNoBreak(_, _, _, _, _, _)
SelectFromNoBreak(remaining, i, selected, used, budget, base) ==
    IF i < 1 THEN selected
    ELSE LET msg == remaining[i]
             msgTokens == EstimateSingleMessageTokens(msg)
         IN  IF used + msgTokens <= budget \/ Len(selected) = base
             THEN SelectFromNoBreak(remaining, i - 1,
                             SubSeq(selected, 1, base) \o <<msg>>
                               \o SubSeq(selected, base + 1, Len(selected)),
                             used + msgTokens, budget, base)
             ELSE SelectFromNoBreak(remaining, i - 1, selected, used, budget, base)

\* The second loop, from remaining[i] down: selected.splice(base, 0, msg)
\* puts msg right after the system message.
RECURSIVE SelectFrom(_, _, _, _, _, _)
SelectFrom(remaining, i, selected, used, budget, base) ==
    IF i < 1 THEN selected
    ELSE LET msg == remaining[i]
             msgTokens == EstimateSingleMessageTokens(msg)
         IN  IF KeepsMessage(used, msgTokens, budget, Len(selected), base)
             THEN SelectFrom(remaining, i - 1,
                             SubSeq(selected, 1, base) \o <<msg>>
                               \o SubSeq(selected, base + 1, Len(selected)),
                             used + msgTokens, budget, base)
             ELSE selected

Threw == [status |-> "threw", selected |-> <<>>]

\* Mutant of the trimmer: the budget test is budget < 0.
TrimMessagesZeroBudgetAllowed(msgs, jsonLen, m) ==
    LET budget == Budget(m, jsonLen)
        s == SystemIndex(msgs)
        remaining == Remaining(msgs)
        sysTokens == IF s = 0 THEN 0 ELSE EstimateSingleMessageTokens(msgs[s])
        base == IF s = 0 THEN 0 ELSE 1
    IN  IF budget < 0 THEN Threw
        ELSE IF s # 0 /\ sysTokens > budget THEN Threw
        ELSE [status |-> "returned",
              selected |-> SelectFrom(remaining, Len(remaining),
                                      IF s = 0 THEN <<>> ELSE <<msgs[s]>>,
                                      sysTokens, budget, base)]

TrimMessagesToFitBudget(msgs, jsonLen, m) ==
    LET budget == Budget(m, jsonLen)
        s == SystemIndex(msgs)
        remaining == Remaining(msgs)
        sysTokens == IF s = 0 THEN 0 ELSE EstimateSingleMessageTokens(msgs[s])
        base == IF s = 0 THEN 0 ELSE 1
    IN  IF budget <= 0 THEN Threw
        ELSE IF s # 0 /\ sysTokens > budget THEN Threw
        ELSE [status |-> "returned",
              selected |-> SelectFrom(remaining, Len(remaining),
                                      IF s = 0 THEN <<>> ELSE <<msgs[s]>>,
                                      sysTokens, budget, base)]

\* The trimmer before any call, for the specifications of the other parts.
TrimIdle ==
    /\ messages = <<>>
    /\ toolsJsonLen = 0
    /\ model = [id |-> Gpt4o, maxInputTokens |-> 0, litellm_provider |-> "undefined"]
    /\ trimOutcome = [status |-> "pending", selected |-> <<>>]

TrimInit ==
    /\ messages \in MessageLists
    /\ toolsJsonLen \in {0, 5}
    /\ model \in Models
    /\ trimOutcome = [status |-> "pending", selected |-> <<>>]

Trim ==
    /\ trimOutcome.status = "pending"
    /\ trimOutcome' = TrimMessagesToFitBudget(messages, toolsJsonLen, model)
    /\ UNCHANGED <<messages, toolsJsonLen, model>>
    /\ UNCHANGED <<netVars, streamVars, transformVars, requestVars, concurrentVars, chatVars>>

(***************************************************************************)
(* litellmClient.ts: fetchWithRateLimit, fetchWithRetry, sleep             *)
(***************************************************************************)

\* The largest maxTotalDelayMs a caller of the model passes.
MaxTotalDelay == 4

\* fetchWithRetry's defaults, which fetchWithRateLimit leaves in place.
DefaultMaxRetries == 2
DefaultRetryDelayMs == 1000

NetOptions == { [maxTotalDelayMs |-> b, initialDelayMs |-> d] :
                  b \in 0..MaxTotalDelay, d \in {1, 2} }

\* The statuses upstream answers with: ok, a client error, rate limited, 5xx.
Statuses == {200, 404, 429, 503}

\* The Retry-After header of a response: absent; a number of seconds (ms is
\* the seconds times 1000); an HTTP date (ms is the date minus Date.now()).
RetryAfterHeaders ==
    { [kind |-> "absent", ms |-> 0],
      [kind |-> "seconds", ms |-> 0], [kind |-> "seconds", ms |-> 2],
      [kind |-> "seconds", ms |-> 9],
      [kind |-> "date", ms |-> 3], [kind |-> "date", ms |-> -1] }

Undefined == -1

\* Mutant: the Retry-After header is not looked at.
ParseRetryAfterDelayMsNever(header) == Undefined

ParseRetryAfterDelayMs(header) ==
    CASE header.kind = "seconds" -> header.ms
      [] header.kind = "date" /\ header.ms > 0 -> header.ms
      [] OTHER -> Undefined

RECURSIVE Pow2(_)
Pow2(n) == IF n = 0 THEN 1 ELSE 2 * Pow2(n - 1)

\* Mutant: the chosen delay is not clamped to what is left of the budget.
NextDelayMsUnclamped(header, initialDelayMs, rlAttempt, remaining) ==
    LET headerDelayMs == ParseRetryAfterDelayMs(header)
        exponentialDelayMs == initialDelayMs * Pow2(rlAttempt)
        chosenDelay == IF headerDelayMs # Undefined THEN headerDelayMs ELSE exponentialDelayMs
    IN  Max(1, chosenDelay)

\* Mutant: the chosen delay is not raised to 1 ms.
NextDelayMsUnfloored(header, initialDelayMs, rlAttempt, remaining) ==
    LET headerDelayMs == ParseRetryAfterDelayMs(header)
        exponentialDelayMs == initialDelayMs * Pow2(rlAttempt)
        chosenDelay == IF headerDelayMs # Undefined THEN headerDelayMs ELSE exponentialDelayMs
    IN  Min(chosenDelay, remaining)

NextDelayMs(header, initialDelayMs, rlAttempt, remaining) ==
    LET headerDelayMs == ParseRetryAfterDelayMs(header)
        exponentialDelayMs == initialDelayMs * Pow2(rlAttempt)
        chosenDelay == IF headerDelayMs # Undefined THEN headerDelayMs ELSE exponentialDelayMs
    IN  Min(Max(1, chosenDelay), remaining)

\* Mutant: the token is never looked at.
IsCancellationRequestedNever == FALSE

IsCancellationRequested == cancelled

CancelledError == [kind |-> "cancelled", status |-> 0]
NetworkError == [kind |-> "networkError", status |-> 0]
Response(status) == [kind |-> "response", status |-> status]

\* The call ends: it returns a response or throws.
NetEnds(result) ==
    /\ netPc' = "done"
    /\ netResult' = result

\* fetchWithRetry's loop from its head with attempt = att: the token is
\* tested and fetch() is called in the same turn.
RetryLoopHead(att) ==
    /\ attempt' = att
    /\ IF IsCancellationRequested
       THEN NetEnds(CancelledError) /\ UNCHANGED fetchCount
       ELSE /\ netPc' = "fetching"
            /\ fetchCount' = fetchCount + 1
            /\ UNCHANGED netResult

\* fetchWithRateLimit's loop from its head: the token is tested, then
\* fetchWithRetry is called with its own attempt at 0.
RateLimitLoopHead ==
    IF IsCancellationRequested
    THEN NetEnds(CancelledError) /\ UNCHANGED <<attempt, fetchCount>>
    ELSE RetryLoopHead(0)

\* sleep(ms, token) called from where: rejected at once when the token is
\* cancelled, pending otherwise.
Sleep(where) ==
    IF IsCancellationRequested
    THEN NetEnds(CancelledError)
    ELSE netPc' = where /\ UNCHANGED netResult

\* The outcome of a fetch() that rejected.
NetworkFailure == 0

NoRound == [header |-> [kind |-> "absent", ms |-> 0], attempt |-> -1, remaining |-> 0,
            nextDelayMs |-> 0]

NetIdle ==
    /\ netOptions = [maxTotalDelayMs |-> 0, initialDelayMs |-> 1]
    /\ netPc = "idle"
    /\ cancelled = FALSE
    /\ attempt = 0
    /\ rateLimitAttempt = 0
    /\ cumulativeDelayMs = 0
    /\ netResult = [kind |-> "none", status |-> 0]
    /\ fetchCount = 0
    /\ rateLimitSleptMs = 0
    /\ lastRound = NoRound
    /\ retryOutcomes = <<>>
    /\ cancelledAt = "never"

NetInit ==
    /\ netOptions \in NetOptions
    /\ netPc = "idle"
    /\ cancelled = FALSE
    /\ attempt = 0
    /\ rateLimitAttempt = 0
    /\ cumulativeDelayMs = 0
    /\ netResult = [kind |-> "none", status |-> 0]
    /\ fetchCount = 0
    /\ rateLimitSleptMs = 0
    /\ lastRound = NoRound
    /\ retryOutcomes = <<>>
    /\ cancelledAt = "never"

\* chat() calls fetchWithRateLimit.
CallFetchWithRateLimit ==
    /\ netPc = "idle"
    /\ RateLimitLoopHead
    /\ retryOutcomes' = <<>>
    /\ UNCHANGED <<netOptions, cancelled, rateLimitAttempt, cumulativeDelayMs,
                   rateLimitSleptMs, lastRound, cancelledAt>>
    /\ UNCHANGED <<trimVars, streamVars, transformVars, requestVars, concurrentVars, chatVars>>

\* fetchWithRetry returned response to fetchWithRateLimit (lines 156-172).
RateLimitHandles(status, header) ==
    LET remaining == netOptions.maxTotalDelayMs - cumulativeDelayMs
        nextDelayMs == NextDelayMs(header, netOptions.initialDelayMs,
                                   rateLimitAttempt, remaining)
    IN  IF status # 429 \/ remaining <= 0
        THEN /\ NetEnds(Response(status))
             /\ UNCHANGED <<rateLimitAttempt, cumulativeDelayMs, rateLimitSleptMs, lastRound>>
        ELSE /\ rateLimitAttempt' = rateLimitAttempt + 1
             /\ cumulativeDelayMs' = cumulativeDelayMs + nextDelayMs
             /\ rateLimitSleptMs' = rateLimitSleptMs + nextDelayMs
             /\ lastRound' = [header |-> header, attempt |-> rateLimitAttempt,
                              remaining |-> remaining, nextDelayMs |-> nextDelayMs]
             /\ Sleep("rateLimitSleep")

\* Mutant: a 5xx response is retried however many retries were made.
ReturnsResponseUnlessServerError(status, att) ==
    \/ (status >= 200 /\ status <= 299)
    \/ status < 500
    \/ status >= 600

\* `response.ok || attempt >= maxRetries || response.status < 500 ||
\* response.status >= 600`
ReturnsResponse(status, att) ==
    \/ (status >= 200 /\ status <= 299)
    \/ att >= DefaultMaxRetries
    \/ status < 500
    \/ status >= 600

\* The fetch in flight resolves with a response (lines 114-119).
FetchResolves ==
    /\ netPc = "fetching"
    /\ ~cancelled
    /\ \E status \in Statuses, header \in RetryAfterHeaders :
          /\ retryOutcomes' = Append(retryOutcomes, status)
          /\ IF ReturnsResponse(status, attempt)
             THEN RateLimitHandles(status, header) /\ UNCHANGED attempt
             ELSE /\ attempt' = attempt + 1
                  /\ Sleep("retrySleepTry")
                  /\ UNCHANGED <<rateLimitAttempt, cumulativeDelayMs, rateLimitSleptMs,
                                 lastRound>>
    /\ UNCHANGED <<netOptions, cancelled, fetchCount, cancelledAt>>
    /\ UNCHANGED <<trimVars, streamVars, transformVars, requestVars, concurrentVars, chatVars>>

\* The fetch in flight rejects with a network failure (lines 120-128).
FetchRejects ==
    /\ netPc = "fetching"
    /\ ~cancelled
    /\ IF attempt >= DefaultMaxRetries
       THEN NetEnds(NetworkError) /\ UNCHANGED attempt
       ELSE attempt' = attempt + 1 /\ Sleep("retrySleepCatch")
    /\ retryOutcomes' = Append(retryOutcomes, NetworkFailure)
    /\ UNCHANGED <<netOptions, cancelled, rateLimitAttempt, cumulativeDelayMs,
                   fetchCount, rateLimitSleptMs, lastRound, cancelledAt>>
    /\ UNCHANGED <<trimVars, streamVars, transformVars, requestVars, concurrentVars, chatVars>>

\* The timer of a pending sleep fires: the loop that slept goes round.
SleepElapses ==
    /\ netPc \in {"retrySleepTry", "retrySleepCatch", "rateLimitSleep"}
    /\ IF netPc = "rateLimitSleep" THEN RateLimitLoopHead ELSE RetryLoopHead(attempt)
    /\ retryOutcomes' = IF netPc = "rateLimitSleep" THEN <<>> ELSE retryOutcomes
    /\ UNCHANGED <<netOptions, cancelled, rateLimitAttempt, cumulativeDelayMs,
                   rateLimitSleptMs, lastRound, cancelledAt>>
    /\ UNCHANGED <<trimVars, streamVars, transformVars, requestVars, concurrentVars, chatVars>>

\* Mutant: sleep registers no cancellation listener, so a pending sleep runs
\* to its end.
OnCancellationSleepNotInterrupted(pc, att) ==
    CASE pc = "fetching" -> [pc |-> "done", attempt |-> att, result |-> CancelledError]
      [] OTHER -> [pc |-> pc, attempt |-> att, result |-> netResult]

\* What the token's listeners do when it is cancelled with the call at pc:
\*  - a fetch in flight is aborted and rejects with AbortError (lines 111,
\*    121-123);
\*  - a pending sleep is rejected (lines 186-190); the sleep of line 119 stands
\*    inside the try, so its rejection is caught at line 120 and either rethrown
\*    (line 125) or followed by the sleep of line 128, rejected at once.
OnCancellation(pc, att) ==
    CASE pc = "fetching" -> [pc |-> "done", attempt |-> att, result |-> CancelledError]
      [] pc = "retrySleepTry" ->
            [pc |-> "done",
             attempt |-> IF att >= DefaultMaxRetries THEN att ELSE att + 1,
             result |-> CancelledError]
      [] pc \in {"retrySleepCatch", "rateLimitSleep"} ->
            [pc |-> "done", attempt |-> att, result |-> CancelledError]
      [] OTHER -> [pc |-> pc, attempt |-> att, result |-> netResult]

\* The caller cancels the token.
Cancel ==
    /\ ~cancelled
    /\ cancelled' = TRUE
    /\ cancelledAt' = netPc
    /\ LET after == OnCancellation(netPc, attempt)
       IN  /\ netPc' = after.pc
           /\ attempt' = after.attempt
           /\ netResult' = after.result
    /\ UNCHANGED <<netOptions, rateLimitAttempt, cumulativeDelayMs, fetchCount,
                   rateLimitSleptMs, lastRound, retryOutcomes>>
    /\ UNCHANGED <<trimVars, streamVars, transformVars, requestVars, concurrentVars, chatVars>>


(***************************************************************************)
(* Properties of the transport                                             *)
(***************************************************************************)

SleepPcs == {"retrySleepTry", "retrySleepCatch", "rateLimitSleep"}

\* C2: within one fetchWithRateLimit call the delays slept after 429
\* responses never add up to more than maxTotalDelayMs.
C2_BackoffBound ==
    /\ rateLimitSleptMs <= netOptions.maxTotalDelayMs
    /\ cumulativeDelayMs <= netOptions.maxTotalDelayMs

\* The budget was used up over several 429 rounds and the last 429 came back.
C2_Witness ==
    /\ netPc = "done"
    /\ netResult = Response(429)
    /\ rateLimitAttempt >= 2
    /\ rateLimitSleptMs = netOptions.maxTotalDelayMs

\* C3: once the token is cancelled no fetch is made any more.
C3_NoFetchAfterCancel == [][cancelled => fetchCount' = fetchCount]_vars

\* Cancelled during the sleep after a 5xx, with retries and delay budget left.
C3_Witness ==
    /\ cancelledAt = "retrySleepTry"
    /\ netPc = "done"
    /\ fetchCount = 1
    /\ attempt <= DefaultMaxRetries
    /\ cumulativeDelayMs < netOptions.maxTotalDelayMs

\* C4: a cancellation that comes while a fetch is in flight or a sleep is
\* pending ends the call at once, and with the cancellation error.
C4_CancelEndsWithCancelledError ==
    cancelledAt \in ({"fetching"} \cup SleepPcs) =>
        netPc = "done" /\ netResult = CancelledError

C4_Witness ==
    /\ cancelledAt = "rateLimitSleep"
    /\ netResult = CancelledError
    /\ fetchCount >= 2

\* The header carries a hint: a number of seconds, or a date in the future.
HintPresent(header) ==
    header.kind = "seconds" \/ (header.kind = "date" /\ header.ms > 0)

\* The hint when there is one, else initialDelayMs * 2^attempt.
HintOrBackoff(round) ==
    IF HintPresent(round.header) THEN round.header.ms
    ELSE netOptions.initialDelayMs * 2^round.attempt

\* The round counted the 429 rounds before it, and what was left of the
\* budget before it.
RoundCounts(round) ==
    /\ round.attempt = rateLimitAttempt - 1
    /\ round.remaining = netOptions.maxTotalDelayMs - (cumulativeDelayMs - round.nextDelayMs)

\* C32 as stated: the delay of a 429 round is the hint of its Retry-After
\* header when there is one, else initialDelayMs * 2^attempt with attempt
\* the 429 rounds before it, and it is cut down to what was left of the
\* budget.
C32_DelayIsHintOrBackoff ==
    lastRound # NoRound =>
        /\ RoundCounts(lastRound)
        /\ lastRound.nextDelayMs = Min(HintOrBackoff(lastRound), lastRound.remaining)

\* C32: the same, the delay being at least 1 ms before it is cut down to
\* what was left of the budget.
C32_DelayIsHintOrBackoffFloored ==
    lastRound # NoRound =>
        /\ RoundCounts(lastRound)
        /\ lastRound.nextDelayMs =
              Min(Max(1, HintOrBackoff(lastRound)), lastRound.remaining)

\* In the second 429 round a hint above what was left was cut down to it.
C32_Witness ==
    /\ lastRound.attempt = 1
    /\ lastRound.header = [kind |-> "seconds", ms |-> 9]
    /\ lastRound.remaining < 9
    /\ lastRound.nextDelayMs = lastRound.remaining


(***************************************************************************)
(* utils.ts: tryParseJSONObject, over the JSON texts the model can form:   *)
(* objects and arrays of at most one member, strings without escapes,      *)
(* numbers written with digits, the blank as white space.                  *)
(***************************************************************************)

JsonFail == [ok |-> FALSE, next |-> 0, kind |-> "none", text |-> <<>>]

RECURSIVE SkipWs(_, _)
SkipWs(s, i) == IF i <= Len(s) /\ s[i] = " " THEN SkipWs(s, i + 1) ELSE i

\* A string literal that opens at s[i].
JsonString(s, i) ==
    IF \E j \in (i + 1)..Len(s) : s[j] = "\""
    THEN LET j == CHOOSE j \in (i + 1)..Len(s) :
                     s[j] = "\"" /\ \A k \in (i + 1)..(j - 1) : s[k] # "\""
         IN  [ok |-> TRUE, next |-> j + 1, kind |-> "string", text |-> SubSeq(s, i, j)]
    ELSE JsonFail

RECURSIVE DigitsEnd(_, _)
DigitsEnd(s, i) == IF i <= Len(s) /\ IsDigit(s[i]) THEN DigitsEnd(s, i + 1) ELSE i

\* A number that opens at s[i]: 0, or digits with no leading 0.
JsonNumber(s, i) ==
    LET e == IF s[i] = "0" THEN i + 1 ELSE DigitsEnd(s, i)
    IN  [ok |-> TRUE, next |-> e, kind |-> "number", text |-> SubSeq(s, i, e - 1)]

\* The value that starts at or after s[i]; text is JSON.stringify of it.
RECURSIVE JsonValue(_, _)
JsonValue(s, i) ==
    LET j == SkipWs(s, i)
    IN  IF j > Len(s) THEN JsonFail
        ELSE IF s[j] = "\"" THEN JsonString(s, j)
        ELSE IF IsDigit(s[j]) THEN JsonNumber(s, j)
        ELSE IF s[j] = "[" THEN
            LET k == SkipWs(s, j + 1)
            IN  IF k <= Len(s) /\ s[k] = "]"
                THEN [ok |-> TRUE, next |-> k + 1, kind |-> "array", text |-> <<"[", "]">>]
                ELSE LET v == JsonValue(s, k)
                         e == SkipWs(s, v.next)
                     IN  IF v.ok /\ e <= Len(s) /\ s[e] = "]"
                         THEN [ok |-> TRUE, next |-> e + 1, kind |-> "array",
                               text |-> <<"[">> \o v.text \o <<"]">>]
                         ELSE JsonFail
        ELSE IF s[j] = "{" THEN
            LET k == SkipWs(s, j + 1)
            IN  IF k <= Len(s) /\ s[k] = "}"
                THEN [ok |-> TRUE, next |-> k + 1, kind |-> "object", text |-> <<"{", "}">>]
                ELSE IF k <= Len(s) /\ s[k] = "\"" THEN
                    LET key == JsonString(s, k)
                        c == SkipWs(s, key.next)
                    IN  IF key.ok /\ c <= Len(s) /\ s[c] = ":"
                        THEN LET v == JsonValue(s, c + 1)
                                 e == SkipWs(s, v.next)
                             IN  IF v.ok /\ e <= Len(s) /\ s[e] = "}"
                                 THEN [ok |-> TRUE, next |-> e + 1, kind |-> "object",
                                       text |-> <<"{">> \o key.text \o <<":">> \o v.text \o <<"}">>]
                                 ELSE JsonFail
                        ELSE JsonFail
                ELSE JsonFail
        ELSE JsonFail

\* v when it is a value that ends where s ends.
WholeOf(s, v) == IF v.ok /\ SkipWs(s, v.next) > Len(s) THEN v ELSE JsonFail

\* JSON.parse(s): the whole of s is one value.
JsonParse(s) == WholeOf(s, JsonValue(s, 1))

\* Mutant: every value that parses is taken.
ObjectOfAnyValue(v) ==
    IF v.ok THEN [ok |-> TRUE, value |-> v.text] ELSE [ok |-> FALSE, value |-> <<>>]

\* `parsed && typeof parsed === "object" && !Array.isArray(parsed)`
ObjectOf(v) ==
    IF v.ok /\ v.kind = "object" THEN [ok |-> TRUE, value |-> v.text]
    ELSE [ok |-> FALSE, value |-> <<>>]

\* tryParseJSONObject(text): value is the canonical JSON text of the object.
TryParseJSONObject(text) ==
    IF Len(text) = 0 \/ ~(\E i \in 1..Len(text) : text[i] = "{")
    THEN [ok |-> FALSE, value |-> <<>>]
    ELSE ObjectOf(JsonParse(text))

(***************************************************************************)
(* liteLLMProvider.ts: the streaming state of LiteLLMChatModelProvider and *)
(* the methods that work on it. A method is an operator from the state     *)
(* (the record This of the instance's fields, with the parts reported to   *)
(* progress so far) to the state after it.                                 *)
(***************************************************************************)

BEGIN ==
    <<"<", "|", "t", "o", "o", "l", "_", "c", "a", "l", "l", "_", "b", "e", "g", "i",
      "n", "|", ">">>
ARG_BEGIN ==
    <<"<", "|", "t", "o", "o", "l", "_", "c", "a", "l", "l", "_", "a", "r", "g", "u",
      "m", "e", "n", "t", "_", "b", "e", "g", "i", "n", "|", ">">>
END ==
    <<"<", "|", "t", "o", "o", "l", "_", "c", "a", "l", "l", "_", "e", "n", "d", "|",
      ">">>
ARG_END ==
    <<"<", "|", "t", "o", "o", "l", "_", "c", "a", "l", "l", "_", "a", "r", "g", "u",
      "m", "e", "n", "t", "_", "e", "n", "d", "|", ">">>
SECTION_BEGIN ==
    <<"_", "s", "e", "c", "t", "i", "o", "n", "_", "b", "e", "g", "i", "n", "|", ">">>
SECTION_END ==
    <<"_", "s", "e", "c", "t", "i", "o", "n", "_", "e", "n", "d", "|", ">">>
UnknownTool ==
    <<"u", "n", "k", "n", "o", "w", "n", "_", "t", "o", "o", "l">>

\* `tct_${Math.random()...}` and `call_${Math.random()...}`: the random suffix
\* is left open.
TextToolCallId == "tct_?"
BufferedToolCallId == "call_?"

\* [a-zA-Z0-9_-]
TokenChars ==
    {"a", "b", "c", "d", "e", "f", "g", "h", "i", "j", "k", "l", "m", "n", "o", "p",
     "q", "r", "s", "t", "u", "v", "w", "x", "y", "z", "A", "B", "C", "D", "E", "F",
     "G", "H", "I", "J", "K", "L", "M", "N", "O", "P", "Q", "R", "S", "T", "U", "V",
     "W", "X", "Y", "Z", "0", "1", "2", "3", "4", "5", "6", "7", "8", "9", "_", "-"}

\* [A-Za-z0-9_\-.]
NameChars == TokenChars \cup {"."}

NoActive == [active |-> FALSE, name |-> NoStr, index |-> NoNum, argBuffer |-> <<>>,
             emitted |-> FALSE]

\* The fields after construction and after resetStreamingState.
FreshState ==
    [toolCallBuffers |-> <<>>,
     completedToolCallIndices |-> {},
     hasEmittedAssistantText |-> FALSE,
     emittedBeginToolCallsHint |-> FALSE,
     textToolParserBuffer |-> <<>>,
     textToolActive |-> NoActive,
     emittedTextToolCallKeys |-> {},
     emittedTextToolCallIds |-> {},
     partialAssistantText |-> <<>>,
     lastEmittedText |-> <<>>,
     repeatCount |-> 0,
     parts |-> <<>>]

\* new vscode.LanguageModelTextPart(value)
TextPartOf(value) ==
    [kind |-> "text", value |-> value, callId |-> "", name |-> NoStr, input |-> <<>>,
     index |-> NoNum, via |-> "text"]

\* Identifiers and type tags that the code only compares are strings, the
\* empty string when absent.
\* new vscode.LanguageModelToolCallPart(callId, name, input); input is the
\* canonical JSON of the arguments object. index (the explicit index of the
\* call, if it has one) and via (the path that reported it) are history.
ToolCallPartOf(callId, name, input, index, via) ==
    [kind |-> "toolcall", value |-> <<>>, callId |-> callId, name |-> name, input |-> input,
     index |-> index, via |-> via]

\* trackingProgress.report(part)
Report(st, part) ==
    [st EXCEPT !.partialAssistantText = IF part.kind = "text" THEN @ \o part.value ELSE @,
               !.parts = Append(@, part)]

\* emitTextToolCallIfValid once the arguments are parsed.
EmitParsedTextToolCall(st, name, index, parsed) ==
    LET key == name \o <<":">> \o parsed.value
        idKey == name \o <<":">> \o NumberToString(index)
    IN  IF ~parsed.ok THEN [st |-> st, did |-> FALSE]
        ELSE IF index # NoNum /\ idKey \in st.emittedTextToolCallIds
        THEN [st |-> st, did |-> FALSE]
        ELSE IF index = NoNum /\ key \in st.emittedTextToolCallKeys
        THEN [st |-> st, did |-> FALSE]
        ELSE [st |-> Report([st EXCEPT
                                !.emittedTextToolCallIds =
                                    IF index # NoNum THEN @ \cup {idKey} ELSE @,
                                !.emittedTextToolCallKeys = @ \cup {key}],
                            ToolCallPartOf(TextToolCallId, name, parsed.value, index,
                                           "inline")),
              did |-> TRUE]

EmitTextToolCallIfValid(st, call, argText) ==
    EmitParsedTextToolCall(st, IF call.name = NoStr THEN UnknownTool ELSE call.name,
                           call.index, TryParseJSONObject(argText))

FlushActiveTextToolCall(st) ==
    IF ~st.textToolActive.active THEN st
    ELSE [EmitTextToolCallIfValid(st, st.textToolActive, st.textToolActive.argBuffer).st
            EXCEPT !.textToolActive = NoActive]

\* _toolCallBuffers is a Map: its entries in insertion order. The place of
\* the entry of idx, 0 when there is none.
BufferPos(buffers, idx) ==
    IF \E i \in 1..Len(buffers) : buffers[i].idx = idx
    THEN CHOOSE i \in 1..Len(buffers) : buffers[i].idx = idx
    ELSE 0

\* Map.delete(idx)
BufferDeleteAt(buffers, i) ==
    IF i = 0 THEN buffers
    ELSE SubSeq(buffers, 1, i - 1) \o SubSeq(buffers, i + 1, Len(buffers))

BufferDelete(buffers, idx) == BufferDeleteAt(buffers, BufferPos(buffers, idx))

\* Map.set(idx, buf)
BufferSetAt(buffers, buf, i) ==
    IF i = 0 THEN Append(buffers, buf) ELSE [buffers EXCEPT ![i] = buf]

BufferSet(buffers, buf) == BufferSetAt(buffers, buf, BufferPos(buffers, buf.idx))

\* Mutant: the call is reported, its buffer stays and its index is not
\* recorded as completed.
ReportBufferedKept(st, buf, name, input, via) ==
    Report(st, ToolCallPartOf(IF buf.id = "" THEN BufferedToolCallId ELSE buf.id,
                              name, input,
                              IF buf.explicitIndex THEN buf.idx ELSE NoNum, via))

\* The part of a buffered call, and the buffer's end. explicitIndex is
\* history: whether a fragment of the call carried an index.
ReportBuffered(st, buf, name, input, via) ==
    [Report(st, ToolCallPartOf(IF buf.id = "" THEN BufferedToolCallId ELSE buf.id,
                               name, input,
                               IF buf.explicitIndex THEN buf.idx ELSE NoNum, via))
        EXCEPT !.toolCallBuffers = BufferDelete(@, buf.idx),
               !.completedToolCallIndices = @ \cup {buf.idx}]

\* tryEmitBufferedToolCall for the buffer buf, its arguments parsed.
EmitBuffered(st, buf, canParse) ==
    IF buf.name = NoStr \/ buf.name = <<>> THEN st
    ELSE IF ~canParse.ok THEN st
    ELSE ReportBuffered(st, buf, buf.name, canParse.value, "buffered")

TryEmitBufferedAt(st, i) ==
    IF i = 0 THEN st
    ELSE EmitBuffered(st, st.toolCallBuffers[i],
                      TryParseJSONObject(st.toolCallBuffers[i].args))

TryEmitBufferedToolCall(st, index) ==
    TryEmitBufferedAt(st, BufferPos(st.toolCallBuffers, index))

\* flushToolCallBuffers from the i-th entry of the snapshot entries.
RECURSIVE FlushFrom(_, _, _, _)

FlushEntry(st, entries, i, throwOnInvalid, parsed) ==
    IF ~parsed.ok
    THEN IF throwOnInvalid THEN [st |-> st, threw |-> TRUE]
         ELSE FlushFrom(st, entries, i + 1, throwOnInvalid)
    ELSE FlushFrom(ReportBuffered(st, entries[i],
                                  IF entries[i].name = NoStr THEN UnknownTool
                                                             ELSE entries[i].name,
                                  parsed.value, "flushed"),
                   entries, i + 1, throwOnInvalid)

FlushFrom(st, entries, i, throwOnInvalid) ==
    IF i > Len(entries) THEN [st |-> st, threw |-> FALSE]
    ELSE FlushEntry(st, entries, i, throwOnInvalid, TryParseJSONObject(entries[i].args))

FlushToolCallBuffers(st, throwOnInvalid) ==
    FlushFrom(st, st.toolCallBuffers, 1, throwOnInvalid)

\* The least element of a set of positions, 0 when it is empty.
First(positions) ==
    IF positions = {} THEN 0 ELSE CHOOSE i \in positions : \A j \in positions : i <= j

\* The greatest element of a set of positions, 0 when it is empty.
Last(positions) ==
    IF positions = {} THEN 0 ELSE CHOOSE i \in positions : \A j \in positions : j <= i

\* stripControlTokens, first replace: /<\|[a-zA-Z0-9_-]+_section_(?:begin|end)\|>/g.
\* Where "_section_begin|>" or "_section_end|>" can stand in a match that
\* starts at s[i].
SectionTails(s, i) ==
    { k \in (i + 3)..Len(s) :
        /\ \A x \in (i + 2)..(k - 1) : s[x] \in TokenChars
        /\ \/ MatchesAt(s, SECTION_BEGIN, k - 1)
           \/ MatchesAt(s, SECTION_END, k - 1) }

SectionLenTo(s, i, k) ==
    IF k = 0 THEN 0
    ELSE (k - i) + (IF MatchesAt(s, SECTION_BEGIN, k - 1) THEN Len(SECTION_BEGIN)
                                                         ELSE Len(SECTION_END))

\* The length of the match that starts at s[i], 0 when there is none.
SectionMatchLen(s, i) ==
    IF ~MatchesAt(s, <<"<", "|">>, i - 1) THEN 0
    ELSE SectionLenTo(s, i, Last(SectionTails(s, i)))

\* The first match is cut out, and the replace goes on behind it.
RECURSIVE StripSections(_)

CutSection(s, i) ==
    IF i = 0 THEN s
    ELSE SubSeq(s, 1, i - 1) \o StripSections(SubSeq(s, i + SectionMatchLen(s, i), Len(s)))

StripSections(s) == CutSection(s, First({ i \in 1..Len(s) : SectionMatchLen(s, i) > 0 }))

\* stripControlTokens, second replace: /<\|tool_call_(?:argument_)?(?:begin|end)\|>/g
ToolTokenMatchLen(s, i) ==
    IF MatchesAt(s, BEGIN, i - 1) THEN Len(BEGIN)
    ELSE IF MatchesAt(s, END, i - 1) THEN Len(END)
    ELSE IF MatchesAt(s, ARG_BEGIN, i - 1) THEN Len(ARG_BEGIN)
    ELSE IF MatchesAt(s, ARG_END, i - 1) THEN Len(ARG_END)
    ELSE 0

RECURSIVE StripToolTokens(_)

CutToolToken(s, i) ==
    IF i = 0 THEN s
    ELSE SubSeq(s, 1, i - 1) \o StripToolTokens(SubSeq(s, i + ToolTokenMatchLen(s, i), Len(s)))

StripToolTokens(s) ==
    CutToolToken(s, First({ i \in 1..Len(s) : ToolTokenMatchLen(s, i) > 0 }))

StripControlTokens(text) == StripToolTokens(StripSections(text))

\* header.match(/^([A-Za-z0-9_\-.]+)(?::(\d+))?/): name is m[1], index is
\* Number(m[2]) when the digits are there. n is where the name's characters
\* end, d where the digits behind the colon end.
RECURSIVE NameRunEnd(_, _)
NameRunEnd(s, i) == IF i <= Len(s) /\ s[i] \in NameChars THEN NameRunEnd(s, i + 1) ELSE i

HeaderParts(header, n, d) ==
    IF n = 1 THEN [name |-> NoStr, index |-> NoNum]
    ELSE IF n <= Len(header) /\ header[n] = ":" /\ d > n + 1
    THEN [name |-> SubSeq(header, 1, n - 1),
          index |-> StringToNumber(SubSeq(header, n + 1, d - 1))]
    ELSE [name |-> SubSeq(header, 1, n - 1), index |-> NoNum]

HeaderMatchFrom(header, n) == HeaderParts(header, n, DigitsEnd(header, n + 1))

HeaderMatch(header) == HeaderMatchFrom(header, NameRunEnd(header, 1))

\* { name, index, argBuffer: "", emitted: false }
ActiveOf(m) ==
    [active |-> TRUE, name |-> m.name, index |-> m.index, argBuffer |-> <<>>,
     emitted |-> FALSE]

\* The call that opens with the header.
ActiveCall(header) == ActiveOf(HeaderMatch(TrimStr(header)))

LongestPartialPrefix(data) ==
    Last({ k \in 1..Min(Len(BEGIN) - 1, Len(data) - 1) : EndsWith(data, Slice(BEGIN, 0, k)) })

\* The repetition guard's threshold.
RepeatLimit == 20

LoopResult(st, data, visibleOut, emittedAny) ==
    [st |-> st, data |-> data, visibleOut |-> visibleOut, emittedAny |-> emittedAny]

\* `if (text) { visibleOut += this.stripControlTokens(text); }`
Visible(visibleOut, text) ==
    IF text # <<>> THEN visibleOut \o StripControlTokens(text) ELSE visibleOut

\* processTextContent's while loop, from its head to its exit.
RECURSIVE TextLoop(_, _, _, _)

\* No BEGIN in data: the longest prefix of BEGIN that ends data, of k
\* characters, is held back, and the rest is visible.
NoCallOpens(st, data, visibleOut, emittedAny, k) ==
    IF k > 0
    THEN LoopResult([st EXCEPT !.textToolParserBuffer = SliceFrom(data, Len(data) - k)],
                    <<>>, Visible(visibleOut, Slice(data, 0, Len(data) - k)), emittedAny)
    ELSE LoopResult(st, <<>>, visibleOut \o StripControlTokens(data), emittedAny)

\* A call is over: r is what emitTextToolCallIfValid made of it.
CallEnds(r, data, visibleOut, emittedAny) ==
    TextLoop([r.st EXCEPT !.textToolActive = NoActive], data, visibleOut,
             emittedAny \/ r.did)

\* Mutant: a header closed by END without ARG_BEGIN reports nothing.
HeaderEndsSilent(st, rest, visibleOut, emittedAny, a, e) ==
    IF a # -1 /\ (e = -1 \/ a < e)
    THEN TextLoop([st EXCEPT !.textToolActive = ActiveCall(Slice(rest, 0, a))],
                  SliceFrom(rest, a + Len(ARG_BEGIN)), visibleOut, emittedAny)
    ELSE IF e # -1
    THEN CallEnds([st |-> st, did |-> FALSE], SliceFrom(rest, e + Len(END)), visibleOut,
                  emittedAny)
    ELSE LoopResult([st EXCEPT !.textToolParserBuffer = BEGIN \o rest], <<>>, visibleOut,
                    emittedAny)

\* rest is what follows BEGIN, a and e are where ARG_BEGIN and END stand in it.
HeaderEnds(st, rest, visibleOut, emittedAny, a, e) ==
    IF a # -1 /\ (e = -1 \/ a < e)
    THEN TextLoop([st EXCEPT !.textToolActive = ActiveCall(Slice(rest, 0, a))],
                  SliceFrom(rest, a + Len(ARG_BEGIN)), visibleOut, emittedAny)
    ELSE IF e # -1
    THEN CallEnds(EmitTextToolCallIfValid(st, ActiveCall(Slice(rest, 0, e)), <<"{", "}">>),
                  SliceFrom(rest, e + Len(END)), visibleOut, emittedAny)
    ELSE LoopResult([st EXCEPT !.textToolParserBuffer = BEGIN \o rest], <<>>, visibleOut,
                    emittedAny)

CallOpens(st, rest, visibleOut, emittedAny) ==
    HeaderEnds(st, rest, visibleOut, emittedAny, IndexOf(rest, ARG_BEGIN), IndexOf(rest, END))

\* No call is active; b is where BEGIN stands in data.
OutsideCall(st, data, visibleOut, emittedAny, b) ==
    IF b = -1
    THEN NoCallOpens(st, data, visibleOut, emittedAny, LongestPartialPrefix(data))
    ELSE CallOpens(st, SliceFrom(data, b + Len(BEGIN)),
                   Visible(visibleOut, Slice(data, 0, b)), emittedAny)

\* `this._textToolActive.argBuffer += text`
WithArguments(st, text) == [st EXCEPT !.textToolActive.argBuffer = @ \o text]

EmitActive(st) ==
    EmitTextToolCallIfValid(st, st.textToolActive, st.textToolActive.argBuffer)

\* The arguments go on behind data: r is what emitTextToolCallIfValid made of
\* the arguments so far.
ArgumentsEmitted(r, visibleOut, emittedAny) ==
    LoopResult([r.st EXCEPT !.textToolActive.emitted = r.did], <<>>, visibleOut,
               emittedAny \/ r.did)

\* Mutant: the arguments are not tried before END.
ArgumentsGoOnLate(st, visibleOut, emittedAny) == LoopResult(st, <<>>, visibleOut, emittedAny)

ArgumentsGoOn(st, visibleOut, emittedAny) ==
    IF ~st.textToolActive.emitted THEN ArgumentsEmitted(EmitActive(st), visibleOut, emittedAny)
    ELSE LoopResult(st, <<>>, visibleOut, emittedAny)

ArgumentsEnd(st, data, visibleOut, emittedAny) ==
    IF ~st.textToolActive.emitted THEN CallEnds(EmitActive(st), data, visibleOut, emittedAny)
    ELSE TextLoop([st EXCEPT !.textToolActive = NoActive], data, visibleOut, emittedAny)

\* A call is active; e2 is where END stands in data.
InsideCall(st, data, visibleOut, emittedAny, e2) ==
    IF e2 = -1 THEN ArgumentsGoOn(WithArguments(st, data), visibleOut, emittedAny)
    ELSE ArgumentsEnd(WithArguments(st, Slice(data, 0, e2)),
                      SliceFrom(data, e2 + Len(END)), visibleOut, emittedAny)

TextLoop(st, data, visibleOut, emittedAny) ==
    IF Len(data) = 0 THEN LoopResult(st, data, visibleOut, emittedAny)
    ELSE IF ~st.textToolActive.active
    THEN OutsideCall(st, data, visibleOut, emittedAny, IndexOf(data, BEGIN))
    ELSE InsideCall(st, data, visibleOut, emittedAny, IndexOf(data, END))

\* Mutant: the counter goes up with every text, repeated or not.
RepetitionNoReset(st, visibleOut) ==
    IF visibleOut = <<>> THEN st
    ELSE [st EXCEPT !.repeatCount = @ + 1, !.lastEmittedText = visibleOut]

\* The repetition guard: _lastEmittedText and _repeatCount after visibleOut.
Repetition(st, visibleOut) ==
    IF visibleOut = <<>> THEN st
    ELSE [st EXCEPT !.repeatCount = IF visibleOut = st.lastEmittedText THEN @ + 1 ELSE 0,
                    !.lastEmittedText = visibleOut]

\* processTextContent behind its loop; st has been through the repetition guard.
ReportVisible(st, visibleOut, data, emittedAny) ==
    IF visibleOut # <<>> /\ st.repeatCount < RepeatLimit
    THEN [st |-> [Report(st, TextPartOf(visibleOut)) EXCEPT !.textToolParserBuffer = data],
          emittedText |-> TRUE, emittedAny |-> TRUE]
    ELSE [st |-> [st EXCEPT !.textToolParserBuffer = data],
          emittedText |-> FALSE, emittedAny |-> emittedAny]

AfterTextLoop(r) ==
    ReportVisible(Repetition(r.st, r.visibleOut), r.visibleOut, r.data, r.emittedAny)

ProcessTextContent(st, input) ==
    AfterTextLoop(TextLoop(st, st.textToolParserBuffer \o input, <<>>, FALSE))

\* A JavaScript string that is there and not empty.
Truthy(s) == s # NoStr /\ s # <<>>

NoItem == [type |-> "", call_id |-> "", name |-> NoStr, arguments |-> NoStr]

NoChoice ==
    [present |-> FALSE, delta |-> [content |-> NoStr, tool_calls |-> <<>>],
     finish_reason |-> ""]

\* The choice processDelta makes of output[0]: of its first content of type
\* output_text.
ChoiceOfOutput(output, found) ==
    IF found = {} THEN NoChoice
    ELSE [present |-> TRUE,
          delta |-> [content |-> output.content[First(found)].text, tool_calls |-> <<>>],
          finish_reason |-> output.finish_reason]

\* The choice processDelta makes of the top-level content or text.
ChoiceOfContent(type, content) ==
    IF type = "" /\ Truthy(content)
    THEN [present |-> TRUE, delta |-> [content |-> content, tool_calls |-> <<>>],
          finish_reason |-> ""]
    ELSE NoChoice

ChoiceElse(fromOutput, delta) ==
    IF fromOutput.present THEN fromOutput
    ELSE ChoiceOfContent(delta.type,
                         IF Truthy(delta.content) THEN delta.content ELSE delta.text)

\* The choice processDelta works on: choices[0], or the one it makes of
\* output[0], or the one it makes of the top-level content or text.
ResolveChoice(delta) ==
    IF Len(delta.choices) > 0
    THEN [present |-> TRUE, delta |-> delta.choices[1].delta,
          finish_reason |-> delta.choices[1].finish_reason]
    ELSE ChoiceElse(IF Len(delta.output) = 0 THEN NoChoice
                    ELSE ChoiceOfOutput(delta.output[1],
                                        { i \in 1..Len(delta.output[1].content) :
                                            delta.output[1].content[i].type = "output_text" }),
                    delta)

\* `this._toolCallBuffers.get(idx) ?? { args: "" }`
BufferAt(buffers, idx, i) ==
    IF i = 0
    THEN [idx |-> idx, explicitIndex |-> FALSE, id |-> "", name |-> NoStr, args |-> <<>>]
    ELSE buffers[i]

BufferGet(buffers, idx) == BufferAt(buffers, idx, BufferPos(buffers, idx))

\* The buffer with the fragment tc added.
BufferWith(buf, tc) ==
    [buf EXCEPT
        !.explicitIndex = @ \/ tc.index # NoNum,
        !.id = IF tc.id # "" THEN tc.id ELSE @,
        !.name = IF Truthy(tc.function.name) THEN tc.function.name ELSE @,
        !.args = IF Truthy(tc.function.arguments) THEN @ \o tc.function.arguments ELSE @]

\* Mutant: a fragment of a completed index makes a buffer again.
ToolCallFragmentRecreating(st, tc, idx) ==
    TryEmitBufferedToolCall(
        [st EXCEPT !.toolCallBuffers =
                      BufferSet(@, BufferWith(BufferGet(st.toolCallBuffers, idx), tc))],
        idx)

\* The body of the for loop over deltaObj.tool_calls, for the fragment tc of
\* the call idx.
ToolCallFragment(st, tc, idx) ==
    IF idx \in st.completedToolCallIndices THEN st
    ELSE TryEmitBufferedToolCall(
            [st EXCEPT !.toolCallBuffers =
                          BufferSet(@, BufferWith(BufferGet(st.toolCallBuffers, idx), tc))],
            idx)

\* The for loop over deltaObj.tool_calls, from its i-th element.
RECURSIVE ToolCallsFrom(_, _, _)
ToolCallsFrom(st, toolCalls, i) ==
    IF i > Len(toolCalls) THEN st
    ELSE ToolCallsFrom(
            ToolCallFragment(st, toolCalls[i],
                             IF toolCalls[i].index = NoNum THEN 0 ELSE toolCalls[i].index),
            toolCalls, i + 1)

\* `if (deltaObj?.content) { ... }`
ContentOf(st, content) ==
    IF Truthy(content) THEN ProcessTextContent(st, content)
    ELSE [st |-> st, emittedText |-> FALSE, emittedAny |-> FALSE]

\* `if (res.emittedText) { this._hasEmittedAssistantText = true; }`
AfterContent(res) ==
    IF res.emittedText THEN [res.st EXCEPT !.hasEmittedAssistantText = TRUE] ELSE res.st

\* The blank reported before the first tool calls that follow text.
BeginToolCallsHint(st, toolCalls) ==
    IF /\ ~st.emittedBeginToolCallsHint
       /\ st.hasEmittedAssistantText
       /\ Len(toolCalls) > 0
    THEN [Report(st, TextPartOf(<<" ">>)) EXCEPT !.emittedBeginToolCallsHint = TRUE]
    ELSE st

\* `if (deltaObj?.tool_calls) { ... }`
ToolCallsOf(st, toolCalls) ==
    ToolCallsFrom(BeginToolCallsHint(st, toolCalls), toolCalls, 1)

\* `if (finish === "tool_calls" || finish === "stop") { flushToolCallBuffers(progress, true) }`
FinishOf(st, finish) ==
    IF finish \in {"tool_calls", "stop"} THEN FlushToolCallBuffers(st, TRUE)
    ELSE [st |-> st, threw |-> FALSE]

\* processDelta from `const deltaObj = choice.delta` on.
ProcessChoice(st, choice) ==
    FinishOf(ToolCallsOf(AfterContent(ContentOf(st, choice.delta.content)),
                         choice.delta.tool_calls),
             choice.finish_reason)

ProcessResolved(st, choice) ==
    IF ~choice.present THEN [st |-> st, threw |-> FALSE] ELSE ProcessChoice(st, choice)

ReportItem(st, item, parsed) ==
    IF parsed.ok
    THEN [st |-> Report(st, ToolCallPartOf(item.call_id,
                                           IF Truthy(item.name) THEN item.name
                                                                ELSE UnknownTool,
                                           parsed.value, NoNum, "item")),
          threw |-> FALSE]
    ELSE [st |-> st, threw |-> FALSE]

\* processDelta's branch for response.output_item.done.
ProcessItemDone(st, item) ==
    IF item.type = "function_call" /\ item.call_id # "" /\ Truthy(item.arguments)
    THEN ReportItem(st, item, TryParseJSONObject(item.arguments))
    ELSE [st |-> st, threw |-> FALSE]

\* The repetition guard of response.output_text.delta.
ReportTextDelta(st, textDelta) ==
    IF st.repeatCount < RepeatLimit
    THEN [st |-> Report(st, TextPartOf(textDelta)), threw |-> FALSE]
    ELSE [st |-> st, threw |-> FALSE]

TextDeltaOf(st, textDelta) ==
    IF ~Truthy(textDelta) THEN [st |-> st, threw |-> FALSE]
    ELSE ReportTextDelta(Repetition(st, textDelta), textDelta)

\* processDelta's branch for response.output_text.delta.
ProcessOutputTextDelta(st, delta) ==
    TextDeltaOf(st, IF Truthy(delta.delta) THEN delta.delta
                    ELSE IF Truthy(delta.text) THEN delta.text
                    ELSE delta.chunk)

\* processDelta(delta): the state after it, and whether it threw.
ProcessDelta(st, delta) ==
    IF delta.type = "response.output_text.delta" THEN ProcessOutputTextDelta(st, delta)
    ELSE IF delta.type = "response.output_item.done" THEN ProcessItemDone(st, delta.item)
    ELSE ProcessResolved(st, ResolveChoice(delta))

(***************************************************************************)
(* The frames of the model: the JSON text of a data line and the object    *)
(* JSON.parse makes of it.                                                 *)
(***************************************************************************)

\* {"type":"response.output_text.delta","delta":"a"}
TextDeltaFrame ==
    [json |->
        <<"{", "\"", "t", "y", "p", "e", "\"", ":", "\"", "r", "e", "s", "p", "o", "n",
          "s", "e", ".", "o", "u", "t", "p", "u", "t", "_", "t", "e", "x", "t", ".",
          "d", "e", "l", "t", "a", "\"", ",", "\"", "d", "e", "l", "t", "a", "\"", ":",
          "\"", "a", "\"", "}">>,
     type |-> "response.output_text.delta",
     delta |-> <<"a">>,
     text |-> NoStr,
     chunk |-> NoStr,
     content |-> NoStr,
     item |-> NoItem,
     choices |-> <<>>,
     output |-> <<>>]

\* {"type":"response.output_item.done","item":{"type":"function_call","call_id"
\* :"c1","name":"f","arguments":"{}"}}
ItemDoneFrame ==
    [json |->
        <<"{", "\"", "t", "y", "p", "e", "\"", ":", "\"", "r", "e", "s", "p", "o", "n",
          "s", "e", ".", "o", "u", "t", "p", "u", "t", "_", "i", "t", "e", "m", ".",
          "d", "o", "n", "e", "\"", ",", "\"", "i", "t", "e", "m", "\"", ":", "{",
          "\"", "t", "y", "p", "e", "\"", ":", "\"", "f", "u", "n", "c", "t", "i", "o",
          "n", "_", "c", "a", "l", "l", "\"", ",", "\"", "c", "a", "l", "l", "_", "i",
          "d", "\"", ":", "\"", "c", "1", "\"", ",", "\"", "n", "a", "m", "e", "\"",
          ":", "\"", "f", "\"", ",", "\"", "a", "r", "g", "u", "m", "e", "n", "t", "s",
          "\"", ":", "\"", "{", "}", "\"", "}", "}">>,
     type |-> "response.output_item.done",
     delta |-> NoStr,
     text |-> NoStr,
     chunk |-> NoStr,
     content |-> NoStr,
     item |-> [type |-> "function_call", call_id |-> "c1", name |-> <<"f">>, arguments |-> <<"{", "}">>],
     choices |-> <<>>,
     output |-> <<>>]

\* {"type":"response.output_item.done","item":{"type":"function_call","call_id"
\* :"c2","name":"f","arguments":"{}"}}
ItemDoneFrame2 ==
    [json |->
        <<"{", "\"", "t", "y", "p", "e", "\"", ":", "\"", "r", "e", "s", "p", "o", "n",
          "s", "e", ".", "o", "u", "t", "p", "u", "t", "_", "i", "t", "e", "m", ".",
          "d", "o", "n", "e", "\"", ",", "\"", "i", "t", "e", "m", "\"", ":", "{",
          "\"", "t", "y", "p", "e", "\"", ":", "\"", "f", "u", "n", "c", "t", "i", "o",
          "n", "_", "c", "a", "l", "l", "\"", ",", "\"", "c", "a", "l", "l", "_", "i",
          "d", "\"", ":", "\"", "c", "2", "\"", ",", "\"", "n", "a", "m", "e", "\"",
          ":", "\"", "f", "\"", ",", "\"", "a", "r", "g", "u", "m", "e", "n", "t", "s",
          "\"", ":", "\"", "{", "}", "\"", "}", "}">>,
     type |-> "response.output_item.done",
     delta |-> NoStr,
     text |-> NoStr,
     chunk |-> NoStr,
     content |-> NoStr,
     item |-> [type |-> "function_call", call_id |-> "c2", name |-> <<"f">>, arguments |-> <<"{", "}">>],
     choices |-> <<>>,
     output |-> <<>>]

\* {"choices":[{"delta":{"content":"a"}}]}
ContentFrame ==
    [json |->
        <<"{", "\"", "c", "h", "o", "i", "c", "e", "s", "\"", ":", "[", "{", "\"", "d",
          "e", "l", "t", "a", "\"", ":", "{", "\"", "c", "o", "n", "t", "e", "n", "t",
          "\"", ":", "\"", "a", "\"", "}", "}", "]", "}">>,
     type |-> "",
     delta |-> NoStr,
     text |-> NoStr,
     chunk |-> NoStr,
     content |-> NoStr,
     item |-> NoItem,
     choices |-> <<[delta |-> [content |-> <<"a">>,
                    tool_calls |-> <<>>],
          finish_reason |-> ""]>>,
     output |-> <<>>]

\* {"choices":[{"delta":{"content":"<|tool_call_begin|>f:0<|tool_call_argument_
\* begin|>{}<|tool_call_end|>"}}]}
InlineIndexedFrame ==
    [json |->
        <<"{", "\"", "c", "h", "o", "i", "c", "e", "s", "\"", ":", "[", "{", "\"", "d",
          "e", "l", "t", "a", "\"", ":", "{", "\"", "c", "o", "n", "t", "e", "n", "t",
          "\"", ":", "\"", "<", "|", "t", "o", "o", "l", "_", "c", "a", "l", "l", "_",
          "b", "e", "g", "i", "n", "|", ">", "f", ":", "0", "<", "|", "t", "o", "o",
          "l", "_", "c", "a", "l", "l", "_", "a", "r", "g", "u", "m", "e", "n", "t",
          "_", "b", "e", "g", "i", "n", "|", ">", "{", "}", "<", "|", "t", "o", "o",
          "l", "_", "c", "a", "l", "l", "_", "e", "n", "d", "|", ">", "\"", "}", "}",
          "]", "}">>,
     type |-> "",
     delta |-> NoStr,
     text |-> NoStr,
     chunk |-> NoStr,
     content |-> NoStr,
     item |-> NoItem,
     choices |-> <<[delta |-> [content |-> <<"<", "|", "t", "o", "o", "l", "_", "c", "a", "l",
                                  "l", "_", "b", "e", "g", "i", "n", "|", ">", "f",
                                  ":", "0", "<", "|", "t", "o", "o", "l", "_", "c",
                                  "a", "l", "l", "_", "a", "r", "g", "u", "m", "e",
                                  "n", "t", "_", "b", "e", "g", "i", "n", "|", ">",
                                  "{", "}", "<", "|", "t", "o", "o", "l", "_", "c",
                                  "a", "l", "l", "_", "e", "n", "d", "|", ">">>,
                    tool_calls |-> <<>>],
          finish_reason |-> ""]>>,
     output |-> <<>>]

\* {"choices":[{"delta":{"content":"<|tool_call_begin|>f<|tool_call_end|>"}}]}
InlineFrame ==
    [json |->
        <<"{", "\"", "c", "h", "o", "i", "c", "e", "s", "\"", ":", "[", "{", "\"", "d",
          "e", "l", "t", "a", "\"", ":", "{", "\"", "c", "o", "n", "t", "e", "n", "t",
          "\"", ":", "\"", "<", "|", "t", "o", "o", "l", "_", "c", "a", "l", "l", "_",
          "b", "e", "g", "i", "n", "|", ">", "f", "<", "|", "t", "o", "o", "l", "_",
          "c", "a", "l", "l", "_", "e", "n", "d", "|", ">", "\"", "}", "}", "]", "}">>,
     type |-> "",
     delta |-> NoStr,
     text |-> NoStr,
     chunk |-> NoStr,
     content |-> NoStr,
     item |-> NoItem,
     choices |-> <<[delta |-> [content |-> <<"<", "|", "t", "o", "o", "l", "_", "c", "a", "l",
                                  "l", "_", "b", "e", "g", "i", "n", "|", ">", "f",
                                  "<", "|", "t", "o", "o", "l", "_", "c", "a", "l",
                                  "l", "_", "e", "n", "d", "|", ">">>,
                    tool_calls |-> <<>>],
          finish_reason |-> ""]>>,
     output |-> <<>>]

\* {"choices":[{"delta":{"content":"<|tool_call_begin|> f
\* <|tool_call_argument_begin|>{ }<|tool_call_end|>"}}]}
InlineSpacedFrame ==
    [json |->
        <<"{", "\"", "c", "h", "o", "i", "c", "e", "s", "\"", ":", "[", "{", "\"", "d",
          "e", "l", "t", "a", "\"", ":", "{", "\"", "c", "o", "n", "t", "e", "n", "t",
          "\"", ":", "\"", "<", "|", "t", "o", "o", "l", "_", "c", "a", "l", "l", "_",
          "b", "e", "g", "i", "n", "|", ">", " ", "f", " ", "<", "|", "t", "o", "o",
          "l", "_", "c", "a", "l", "l", "_", "a", "r", "g", "u", "m", "e", "n", "t",
          "_", "b", "e", "g", "i", "n", "|", ">", "{", " ", "}", "<", "|", "t", "o",
          "o", "l", "_", "c", "a", "l", "l", "_", "e", "n", "d", "|", ">", "\"", "}",
          "}", "]", "}">>,
     type |-> "",
     delta |-> NoStr,
     text |-> NoStr,
     chunk |-> NoStr,
     content |-> NoStr,
     item |-> NoItem,
     choices |-> <<[delta |-> [content |-> <<"<", "|", "t", "o", "o", "l", "_", "c", "a", "l",
                                  "l", "_", "b", "e", "g", "i", "n", "|", ">", " ",
                                  "f", " ", "<", "|", "t", "o", "o", "l", "_", "c",
                                  "a", "l", "l", "_", "a", "r", "g", "u", "m", "e",
                                  "n", "t", "_", "b", "e", "g", "i", "n", "|", ">",
                                  "{", " ", "}", "<", "|", "t", "o", "o", "l", "_",
                                  "c", "a", "l", "l", "_", "e", "n", "d", "|", ">">>,
                    tool_calls |-> <<>>],
          finish_reason |-> ""]>>,
     output |-> <<>>]

\* {"choices":[{"delta":{"tool_calls":[{"index":0,"id":"c1","function":{"name":
\* "f","arguments":"{"}}]}}]}
ToolCallOpenFrame ==
    [json |->
        <<"{", "\"", "c", "h", "o", "i", "c", "e", "s", "\"", ":", "[", "{", "\"", "d",
          "e", "l", "t", "a", "\"", ":", "{", "\"", "t", "o", "o", "l", "_", "c", "a",
          "l", "l", "s", "\"", ":", "[", "{", "\"", "i", "n", "d", "e", "x", "\"", ":",
          "0", ",", "\"", "i", "d", "\"", ":", "\"", "c", "1", "\"", ",", "\"", "f",
          "u", "n", "c", "t", "i", "o", "n", "\"", ":", "{", "\"", "n", "a", "m", "e",
          "\"", ":", "\"", "f", "\"", ",", "\"", "a", "r", "g", "u", "m", "e", "n",
          "t", "s", "\"", ":", "\"", "{", "\"", "}", "}", "]", "}", "}", "]", "}">>,
     type |-> "",
     delta |-> NoStr,
     text |-> NoStr,
     chunk |-> NoStr,
     content |-> NoStr,
     item |-> NoItem,
     choices |-> <<[delta |-> [content |-> NoStr,
                    tool_calls |-> <<[index |-> 0, id |-> "c1", function |-> [name |-> <<"f">>, arguments |-> <<"{">>]]>>],
          finish_reason |-> ""]>>,
     output |-> <<>>]

\* {"choices":[{"delta":{"tool_calls":[{"index":0,"function":{"arguments":"}"}}
\* ]}}]}
ToolCallCloseFrame ==
    [json |->
        <<"{", "\"", "c", "h", "o", "i", "c", "e", "s", "\"", ":", "[", "{", "\"", "d",
          "e", "l", "t", "a", "\"", ":", "{", "\"", "t", "o", "o", "l", "_", "c", "a",
          "l", "l", "s", "\"", ":", "[", "{", "\"", "i", "n", "d", "e", "x", "\"", ":",
          "0", ",", "\"", "f", "u", "n", "c", "t", "i", "o", "n", "\"", ":", "{", "\"",
          "a", "r", "g", "u", "m", "e", "n", "t", "s", "\"", ":", "\"", "}", "\"", "}",
          "}", "]", "}", "}", "]", "}">>,
     type |-> "",
     delta |-> NoStr,
     text |-> NoStr,
     chunk |-> NoStr,
     content |-> NoStr,
     item |-> NoItem,
     choices |-> <<[delta |-> [content |-> NoStr,
                    tool_calls |-> <<[index |-> 0, id |-> "", function |-> [name |-> NoStr, arguments |-> <<"}">>]]>>],
          finish_reason |-> ""]>>,
     output |-> <<>>]

\* {"choices":[{"delta":{"tool_calls":[{"function":{"name":"f","arguments":"{}"
\* }}]}}]}
ToolCallNoIndexFrame ==
    [json |->
        <<"{", "\"", "c", "h", "o", "i", "c", "e", "s", "\"", ":", "[", "{", "\"", "d",
          "e", "l", "t", "a", "\"", ":", "{", "\"", "t", "o", "o", "l", "_", "c", "a",
          "l", "l", "s", "\"", ":", "[", "{", "\"", "f", "u", "n", "c", "t", "i", "o",
          "n", "\"", ":", "{", "\"", "n", "a", "m", "e", "\"", ":", "\"", "f", "\"",
          ",", "\"", "a", "r", "g", "u", "m", "e", "n", "t", "s", "\"", ":", "\"", "{",
          "}", "\"", "}", "}", "]", "}", "}", "]", "}">>,
     type |-> "",
     delta |-> NoStr,
     text |-> NoStr,
     chunk |-> NoStr,
     content |-> NoStr,
     item |-> NoItem,
     choices |-> <<[delta |-> [content |-> NoStr,
                    tool_calls |-> <<[index |-> NoNum, id |-> "", function |-> [name |-> <<"f">>, arguments |-> <<"{", "}">>]]>>],
          finish_reason |-> ""]>>,
     output |-> <<>>]

\* {"choices":[{"delta":{"tool_calls":[{"index":1,"function":{"name":"f","argum
\* ents":"{}"}}]}}]}
ToolCallIndex1Frame ==
    [json |->
        <<"{", "\"", "c", "h", "o", "i", "c", "e", "s", "\"", ":", "[", "{", "\"", "d",
          "e", "l", "t", "a", "\"", ":", "{", "\"", "t", "o", "o", "l", "_", "c", "a",
          "l", "l", "s", "\"", ":", "[", "{", "\"", "i", "n", "d", "e", "x", "\"", ":",
          "1", ",", "\"", "f", "u", "n", "c", "t", "i", "o", "n", "\"", ":", "{", "\"",
          "n", "a", "m", "e", "\"", ":", "\"", "f", "\"", ",", "\"", "a", "r", "g",
          "u", "m", "e", "n", "t", "s", "\"", ":", "\"", "{", "}", "\"", "}", "}", "]",
          "}", "}", "]", "}">>,
     type |-> "",
     delta |-> NoStr,
     text |-> NoStr,
     chunk |-> NoStr,
     content |-> NoStr,
     item |-> NoItem,
     choices |-> <<[delta |-> [content |-> NoStr,
                    tool_calls |-> <<[index |-> 1, id |-> "", function |-> [name |-> <<"f">>, arguments |-> <<"{", "}">>]]>>],
          finish_reason |-> ""]>>,
     output |-> <<>>]

\* {"choices":[{"delta":{},"finish_reason":"tool_calls"}]}
FinishFrame ==
    [json |->
        <<"{", "\"", "c", "h", "o", "i", "c", "e", "s", "\"", ":", "[", "{", "\"", "d",
          "e", "l", "t", "a", "\"", ":", "{", "}", ",", "\"", "f", "i", "n", "i", "s",
          "h", "_", "r", "e", "a", "s", "o", "n", "\"", ":", "\"", "t", "o", "o", "l",
          "_", "c", "a", "l", "l", "s", "\"", "}", "]", "}">>,
     type |-> "",
     delta |-> NoStr,
     text |-> NoStr,
     chunk |-> NoStr,
     content |-> NoStr,
     item |-> NoItem,
     choices |-> <<[delta |-> [content |-> NoStr,
                    tool_calls |-> <<>>],
          finish_reason |-> "tool_calls"]>>,
     output |-> <<>>]

\* {"output":[{"content":[{"type":"output_text","text":"a"}],"finish_reason":"s
\* top"}]}
OutputFrame ==
    [json |->
        <<"{", "\"", "o", "u", "t", "p", "u", "t", "\"", ":", "[", "{", "\"", "c", "o",
          "n", "t", "e", "n", "t", "\"", ":", "[", "{", "\"", "t", "y", "p", "e", "\"",
          ":", "\"", "o", "u", "t", "p", "u", "t", "_", "t", "e", "x", "t", "\"", ",",
          "\"", "t", "e", "x", "t", "\"", ":", "\"", "a", "\"", "}", "]", ",", "\"",
          "f", "i", "n", "i", "s", "h", "_", "r", "e", "a", "s", "o", "n", "\"", ":",
          "\"", "s", "t", "o", "p", "\"", "}", "]", "}">>,
     type |-> "",
     delta |-> NoStr,
     text |-> NoStr,
     chunk |-> NoStr,
     content |-> NoStr,
     item |-> NoItem,
     choices |-> <<>>,
     output |-> <<[content |-> <<[type |-> "output_text", text |-> <<"a">>]>>, finish_reason |-> "stop"]>>]

\* {"text":"é"}
TopLevelFrame ==
    [json |->
        <<"{", "\"", "t", "e", "x", "t", "\"", ":", "\"", "U+00E9", "\"", "}">>,
     type |-> "",
     delta |-> NoStr,
     text |-> <<"U+00E9">>,
     chunk |-> NoStr,
     content |-> NoStr,
     item |-> NoItem,
     choices |-> <<>>,
     output |-> <<>>]

\* {"text":"<|tool_call_begin|>f<|tool_call_end|>"}
TopLevelInlineFrame ==
    [json |->
        <<"{", "\"", "t", "e", "x", "t", "\"", ":", "\"", "<", "|", "t", "o", "o", "l",
          "_", "c", "a", "l", "l", "_", "b", "e", "g", "i", "n", "|", ">", "f", "<",
          "|", "t", "o", "o", "l", "_", "c", "a", "l", "l", "_", "e", "n", "d", "|",
          ">", "\"", "}">>,
     type |-> "",
     delta |-> NoStr,
     text |-> <<"<", "|", "t", "o", "o", "l", "_", "c", "a", "l", "l", "_", "b", "e",
                  "g", "i", "n", "|", ">", "f", "<", "|", "t", "o", "o", "l", "_", "c",
                  "a", "l", "l", "_", "e", "n", "d", "|", ">">>,
     chunk |-> NoStr,
     content |-> NoStr,
     item |-> NoItem,
     choices |-> <<>>,
     output |-> <<>>]

\* {"choices":[{"delta":{"tool_calls":[{"index":2,"function":{"arguments":"{}"}
\* }]}}]}
ToolCallNamelessFrame ==
    [json |->
        <<"{", "\"", "c", "h", "o", "i", "c", "e", "s", "\"", ":", "[", "{", "\"", "d",
          "e", "l", "t", "a", "\"", ":", "{", "\"", "t", "o", "o", "l", "_", "c", "a",
          "l", "l", "s", "\"", ":", "[", "{", "\"", "i", "n", "d", "e", "x", "\"", ":",
          "2", ",", "\"", "f", "u", "n", "c", "t", "i", "o", "n", "\"", ":", "{", "\"",
          "a", "r", "g", "u", "m", "e", "n", "t", "s", "\"", ":", "\"", "{", "}", "\"",
          "}", "}", "]", "}", "}", "]", "}">>,
     type |-> "",
     delta |-> NoStr,
     text |-> NoStr,
     chunk |-> NoStr,
     content |-> NoStr,
     item |-> NoItem,
     choices |-> <<[delta |-> [content |-> NoStr,
                    tool_calls |-> <<[index |-> 2, id |-> "", function |-> [name |-> NoStr, arguments |-> <<"{", "}">>]]>>],
          finish_reason |-> ""]>>,
     output |-> <<>>]

\* {"choices":[{"delta":{"content":"<|tool_call_begin|>f<|tool_call_argument_be
\* gin|>{"}}]}
InlineOpenFrame ==
    [json |->
        <<"{", "\"", "c", "h", "o", "i", "c", "e", "s", "\"", ":", "[", "{", "\"", "d",
          "e", "l", "t", "a", "\"", ":", "{", "\"", "c", "o", "n", "t", "e", "n", "t",
          "\"", ":", "\"", "<", "|", "t", "o", "o", "l", "_", "c", "a", "l", "l", "_",
          "b", "e", "g", "i", "n", "|", ">", "f", "<", "|", "t", "o", "o", "l", "_",
          "c", "a", "l", "l", "_", "a", "r", "g", "u", "m", "e", "n", "t", "_", "b",
          "e", "g", "i", "n", "|", ">", "{", "\"", "}", "}", "]", "}">>,
     type |-> "",
     delta |-> NoStr,
     text |-> NoStr,
     chunk |-> NoStr,
     content |-> NoStr,
     item |-> NoItem,
     choices |-> <<[delta |-> [content |-> <<"<", "|", "t", "o", "o", "l", "_", "c", "a", "l",
                                  "l", "_", "b", "e", "g", "i", "n", "|", ">", "f",
                                  "<", "|", "t", "o", "o", "l", "_", "c", "a", "l",
                                  "l", "_", "a", "r", "g", "u", "m", "e", "n", "t",
                                  "_", "b", "e", "g", "i", "n", "|", ">", "{">>,
                    tool_calls |-> <<>>],
          finish_reason |-> ""]>>,
     output |-> <<>>]

\* {"choices":[{"delta":{"content":"}<|tool_call_end|>"}}]}
InlineCloseFrame ==
    [json |->
        <<"{", "\"", "c", "h", "o", "i", "c", "e", "s", "\"", ":", "[", "{", "\"", "d",
          "e", "l", "t", "a", "\"", ":", "{", "\"", "c", "o", "n", "t", "e", "n", "t",
          "\"", ":", "\"", "}", "<", "|", "t", "o", "o", "l", "_", "c", "a", "l", "l",
          "_", "e", "n", "d", "|", ">", "\"", "}", "}", "]", "}">>,
     type |-> "",
     delta |-> NoStr,
     text |-> NoStr,
     chunk |-> NoStr,
     content |-> NoStr,
     item |-> NoItem,
     choices |-> <<[delta |-> [content |-> <<"}", "<", "|", "t", "o", "o", "l", "_", "c", "a",
                                  "l", "l", "_", "e", "n", "d", "|", ">">>,
                    tool_calls |-> <<>>],
          finish_reason |-> ""]>>,
     output |-> <<>>]

\* {"type":"response.output_item.done","item":{"type":"function_call","call_id"
\* :"c3","name":"f","arguments":"[{}]"}}
ItemDoneArrayFrame ==
    [json |->
        <<"{", "\"", "t", "y", "p", "e", "\"", ":", "\"", "r", "e", "s", "p", "o", "n",
          "s", "e", ".", "o", "u", "t", "p", "u", "t", "_", "i", "t", "e", "m", ".",
          "d", "o", "n", "e", "\"", ",", "\"", "i", "t", "e", "m", "\"", ":", "{",
          "\"", "t", "y", "p", "e", "\"", ":", "\"", "f", "u", "n", "c", "t", "i", "o",
          "n", "_", "c", "a", "l", "l", "\"", ",", "\"", "c", "a", "l", "l", "_", "i",
          "d", "\"", ":", "\"", "c", "3", "\"", ",", "\"", "n", "a", "m", "e", "\"",
          ":", "\"", "f", "\"", ",", "\"", "a", "r", "g", "u", "m", "e", "n", "t", "s",
          "\"", ":", "\"", "[", "{", "}", "]", "\"", "}", "}">>,
     type |-> "response.output_item.done",
     delta |-> NoStr,
     text |-> NoStr,
     chunk |-> NoStr,
     content |-> NoStr,
     item |-> [type |-> "function_call", call_id |-> "c3", name |-> <<"f">>, arguments |-> <<"[", "{", "}", "]">>],
     choices |-> <<>>,
     output |-> <<>>]

\* {"type":"response.output_item.done","item":{"type":"function_call","call_id"
\* :"c3","name":"f","arguments":"\"{\""}}
ItemDoneStringFrame ==
    [json |->
        <<"{", "\"", "t", "y", "p", "e", "\"", ":", "\"", "r", "e", "s", "p", "o", "n",
          "s", "e", ".", "o", "u", "t", "p", "u", "t", "_", "i", "t", "e", "m", ".",
          "d", "o", "n", "e", "\"", ",", "\"", "i", "t", "e", "m", "\"", ":", "{",
          "\"", "t", "y", "p", "e", "\"", ":", "\"", "f", "u", "n", "c", "t", "i", "o",
          "n", "_", "c", "a", "l", "l", "\"", ",", "\"", "c", "a", "l", "l", "_", "i",
          "d", "\"", ":", "\"", "c", "3", "\"", ",", "\"", "n", "a", "m", "e", "\"",
          ":", "\"", "f", "\"", ",", "\"", "a", "r", "g", "u", "m", "e", "n", "t", "s",
          "\"", ":", "\"", "\\", "\"", "{", "\\", "\"", "\"", "}", "}">>,
     type |-> "response.output_item.done",
     delta |-> NoStr,
     text |-> NoStr,
     chunk |-> NoStr,
     content |-> NoStr,
     item |-> [type |-> "function_call", call_id |-> "c3", name |-> <<"f">>, arguments |-> <<"\"", "{", "\"">>],
     choices |-> <<>>,
     output |-> <<>>]

\* {"choices":[{"delta":{"tool_calls":[{"index":1,"function":{"name":"f","argum
\* ents":"[{}]"}}]}}]}
ToolCallArrayFrame ==
    [json |->
        <<"{", "\"", "c", "h", "o", "i", "c", "e", "s", "\"", ":", "[", "{", "\"", "d",
          "e", "l", "t", "a", "\"", ":", "{", "\"", "t", "o", "o", "l", "_", "c", "a",
          "l", "l", "s", "\"", ":", "[", "{", "\"", "i", "n", "d", "e", "x", "\"", ":",
          "1", ",", "\"", "f", "u", "n", "c", "t", "i", "o", "n", "\"", ":", "{", "\"",
          "n", "a", "m", "e", "\"", ":", "\"", "f", "\"", ",", "\"", "a", "r", "g",
          "u", "m", "e", "n", "t", "s", "\"", ":", "\"", "[", "{", "}", "]", "\"", "}",
          "}", "]", "}", "}", "]", "}">>,
     type |-> "",
     delta |-> NoStr,
     text |-> NoStr,
     chunk |-> NoStr,
     content |-> NoStr,
     item |-> NoItem,
     choices |-> <<[delta |-> [content |-> NoStr,
                    tool_calls |-> <<[index |-> 1, id |-> "", function |-> [name |-> <<"f">>, arguments |-> <<"[", "{", "}", "]">>]]>>],
          finish_reason |-> ""]>>,
     output |-> <<>>]

\* {"choices":[{"delta":{"content":"<|tool_call_begin|>f<|tool_call_argument_be
\* gin|>[{}]<|tool_call_end|>"}}]}
InlineArrayFrame ==
    [json |->
        <<"{", "\"", "c", "h", "o", "i", "c", "e", "s", "\"", ":", "[", "{", "\"", "d",
          "e", "l", "t", "a", "\"", ":", "{", "\"", "c", "o", "n", "t", "e", "n", "t",
          "\"", ":", "\"", "<", "|", "t", "o", "o", "l", "_", "c", "a", "l", "l", "_",
          "b", "e", "g", "i", "n", "|", ">", "f", "<", "|", "t", "o", "o", "l", "_",
          "c", "a", "l", "l", "_", "a", "r", "g", "u", "m", "e", "n", "t", "_", "b",
          "e", "g", "i", "n", "|", ">", "[", "{", "}", "]", "<", "|", "t", "o", "o",
          "l", "_", "c", "a", "l", "l", "_", "e", "n", "d", "|", ">", "\"", "}", "}",
          "]", "}">>,
     type |-> "",
     delta |-> NoStr,
     text |-> NoStr,
     chunk |-> NoStr,
     content |-> NoStr,
     item |-> NoItem,
     choices |-> <<[delta |-> [content |-> <<"<", "|", "t", "o", "o", "l", "_", "c", "a", "l",
                                  "l", "_", "b", "e", "g", "i", "n", "|", ">", "f",
                                  "<", "|", "t", "o", "o", "l", "_", "c", "a", "l",
                                  "l", "_", "a", "r", "g", "u", "m", "e", "n", "t",
                                  "_", "b", "e", "g", "i", "n", "|", ">", "[", "{",
                                  "}", "]", "<", "|", "t", "o", "o", "l", "_", "c",
                                  "a", "l", "l", "_", "e", "n", "d", "|", ">">>,
                    tool_calls |-> <<>>],
          finish_reason |-> ""]>>,
     output |-> <<>>]

Frames ==
    {TextDeltaFrame, ItemDoneFrame, ItemDoneFrame2, ContentFrame, InlineIndexedFrame,
     InlineFrame, InlineSpacedFrame, ToolCallOpenFrame, ToolCallCloseFrame,
     ToolCallNoIndexFrame, ToolCallIndex1Frame, FinishFrame, OutputFrame,
     TopLevelFrame, TopLevelInlineFrame, ToolCallNamelessFrame, InlineOpenFrame,
     InlineCloseFrame, ItemDoneArrayFrame, ItemDoneStringFrame, ToolCallArrayFrame,
     InlineArrayFrame}

(***************************************************************************)
(* The text deltas of SpecInline: content deltas that cut the inline tool  *)
(* call markers at different places.                                       *)
(***************************************************************************)

\* text that ends with the first six characters of BEGIN
PrefixTailChunk ==
    <<"a", "b", "<", "|", "t", "o", "o", "l">>
\* the rest of BEGIN, and a call of f without arguments
MarkerRestChunk ==
    <<"_", "c", "a", "l", "l", "_", "b", "e", "g", "i", "n", "|", ">", "f", "<", "|",
      "t", "o", "o", "l", "_", "c", "a", "l", "l", "_", "e", "n", "d", "|", ">">>
\* plain text
PlainChunk ==
    <<"y">>
\* BEGIN and a header, no delimiter yet
HeaderChunk ==
    <<"<", "|", "t", "o", "o", "l", "_", "c", "a", "l", "l", "_", "b", "e", "g", "i",
      "n", "|", ">", "f", ":", "1">>
\* ARG_BEGIN, arguments and END
ArgumentsChunk ==
    <<"<", "|", "t", "o", "o", "l", "_", "c", "a", "l", "l", "_", "a", "r", "g", "u",
      "m", "e", "n", "t", "_", "b", "e", "g", "i", "n", "|", ">", "{", "}", "<", "|",
      "t", "o", "o", "l", "_", "c", "a", "l", "l", "_", "e", "n", "d", "|", ">">>
\* a call of g without arguments, and text behind it
EmptyCallChunk ==
    <<"<", "|", "t", "o", "o", "l", "_", "c", "a", "l", "l", "_", "b", "e", "g", "i",
      "n", "|", ">", "g", "<", "|", "t", "o", "o", "l", "_", "c", "a", "l", "l", "_",
      "e", "n", "d", "|", ">", "t", "a", "i", "l">>
\* a call of f opens, its arguments begin
OpenCallChunk ==
    <<"<", "|", "t", "o", "o", "l", "_", "c", "a", "l", "l", "_", "b", "e", "g", "i",
      "n", "|", ">", "f", "<", "|", "t", "o", "o", "l", "_", "c", "a", "l", "l", "_",
      "a", "r", "g", "u", "m", "e", "n", "t", "_", "b", "e", "g", "i", "n", "|", ">",
      "{">>
\* the arguments are complete
BraceChunk ==
    <<"}">>
\* END
EndChunk ==
    <<"<", "|", "t", "o", "o", "l", "_", "c", "a", "l", "l", "_", "e", "n", "d", "|",
      ">">>
\* a call of f opens with all of its arguments
WholeArgumentsChunk ==
    <<"<", "|", "t", "o", "o", "l", "_", "c", "a", "l", "l", "_", "b", "e", "g", "i",
      "n", "|", ">", "f", "<", "|", "t", "o", "o", "l", "_", "c", "a", "l", "l", "_",
      "a", "r", "g", "u", "m", "e", "n", "t", "_", "b", "e", "g", "i", "n", "|", ">",
      "{", "}">>

\* the arguments of an open call close, and the call ends
CloseChunk == <<"}">> \o EndChunk

InlineChunks ==
    {PrefixTailChunk, MarkerRestChunk, PlainChunk, HeaderChunk,
     ArgumentsChunk, EmptyCallChunk, OpenCallChunk, BraceChunk,
     EndChunk, WholeArgumentsChunk, CloseChunk}

\* {"choices":[{"delta":{"content":"
ContentOpen ==
    <<"{", "\"", "c", "h", "o", "i", "c", "e", "s", "\"", ":", "[", "{", "\"", "d",
      "e", "l", "t", "a", "\"", ":", "{", "\"", "c", "o", "n", "t", "e", "n", "t",
      "\"", ":", "\"">>
\* "}}]}
ContentClose ==
    <<"\"", "}", "}", "]", "}">>

\* The frame {"choices":[{"delta":{"content":text}}]}, for a text that needs
\* no escapes.
ContentFrameOf(text) ==
    [ContentFrame EXCEPT !.json = ContentOpen \o text \o ContentClose,
                         !.choices[1].delta.content = text]

InlineFrames == { ContentFrameOf(text) : text \in InlineChunks }

(***************************************************************************)
(* The frames of SpecDispatch: frames that have the marks of more than one *)
(* shape, or of none.                                                      *)
(***************************************************************************)

\* {"type":"response.created","choices":[{"delta":{"content":"a"}}]}
TypedChoicesFrame ==
    [ContentFrame EXCEPT
         !.json =
             <<"{", "\"", "t", "y", "p", "e", "\"", ":", "\"", "r", "e", "s", "p", "o",
               "n", "s", "e", ".", "c", "r", "e", "a", "t", "e", "d", "\"", ",", "\"",
               "c", "h", "o", "i", "c", "e", "s", "\"", ":", "[", "{", "\"", "d", "e",
               "l", "t", "a", "\"", ":", "{", "\"", "c", "o", "n", "t", "e", "n", "t",
               "\"", ":", "\"", "a", "\"", "}", "}", "]", "}">>,
         !.type = "response.created"]

\* {"type":"response.created","text":"b"}
TypedTopLevelFrame ==
    [TopLevelFrame EXCEPT
         !.json =
             <<"{", "\"", "t", "y", "p", "e", "\"", ":", "\"", "r", "e", "s", "p", "o",
               "n", "s", "e", ".", "c", "r", "e", "a", "t", "e", "d", "\"", ",", "\"",
               "t", "e", "x", "t", "\"", ":", "\"", "b", "\"", "}">>,
         !.type = "response.created",
         !.text = <<"b">>]

\* {"type":"response.output_text.delta","delta":"a","choices":[{"delta":{"content":"b"}}]}
TextDeltaChoicesFrame ==
    [TextDeltaFrame EXCEPT
         !.json =
             <<"{", "\"", "t", "y", "p", "e", "\"", ":", "\"", "r", "e", "s", "p", "o",
               "n", "s", "e", ".", "o", "u", "t", "p", "u", "t", "_", "t", "e", "x",
               "t", ".", "d", "e", "l", "t", "a", "\"", ",", "\"", "d", "e", "l", "t",
               "a", "\"", ":", "\"", "a", "\"", ",", "\"", "c", "h", "o", "i", "c",
               "e", "s", "\"", ":", "[", "{", "\"", "d", "e", "l", "t", "a", "\"", ":",
               "{", "\"", "c", "o", "n", "t", "e", "n", "t", "\"", ":", "\"", "b",
               "\"", "}", "}", "]", "}">>,
         !.choices = [ContentFrame.choices EXCEPT ![1].delta.content = <<"b">>]]

\* {"choices":[{"delta":{"content":"a"}}],"text":"b"}
ChoicesTopLevelFrame ==
    [ContentFrame EXCEPT
         !.json =
             <<"{", "\"", "c", "h", "o", "i", "c", "e", "s", "\"", ":", "[", "{", "\"",
               "d", "e", "l", "t", "a", "\"", ":", "{", "\"", "c", "o", "n", "t", "e",
               "n", "t", "\"", ":", "\"", "a", "\"", "}", "}", "]", ",", "\"", "t",
               "e", "x", "t", "\"", ":", "\"", "b", "\"", "}">>,
         !.text = <<"b">>]

\* {"foo":"a"}
UnknownFrame ==
    [TopLevelFrame EXCEPT
         !.json =
             <<"{", "\"", "f", "o", "o", "\"", ":", "\"", "a", "\"", "}">>,
         !.text = NoStr]

\* {"type":"response.created"}
TypedUnknownFrame ==
    [TopLevelFrame EXCEPT
         !.json =
             <<"{", "\"", "t", "y", "p", "e", "\"", ":", "\"", "r", "e", "s", "p", "o",
               "n", "s", "e", ".", "c", "r", "e", "a", "t", "e", "d", "\"", "}">>,
         !.type = "response.created",
         !.text = NoStr]

DispatchFrames ==
    {TypedChoicesFrame, TypedTopLevelFrame, TextDeltaChoicesFrame, ChoicesTopLevelFrame,
     UnknownFrame, TypedUnknownFrame, ContentFrame, TopLevelFrame, TextDeltaFrame,
     ItemDoneFrame, ToolCallOpenFrame}

\* JSON.parse(data), over the texts of Frames, InlineFrames and
\* DispatchFrames; any other text of the model is no JSON and makes it throw.
ParsedOf(frames) ==
    IF frames = {} THEN [ok |-> FALSE, value |-> TextDeltaFrame]
    ELSE [ok |-> TRUE, value |-> CHOOSE f \in frames : TRUE]

ParseFrame(data) ==
    ParsedOf({ f \in Frames \cup InlineFrames \cup DispatchFrames : f.json = data })

DataPrefix ==
    <<"d", "a", "t", "a", ":", " ">>
DoneMarker ==
    <<"[", "D", "O", "N", "E", "]">>

\* The data line of the frame f.
DataLineOf(f) == DataPrefix \o f.json

\* Mutant: a payload that is no JSON ends the call being assembled.
HandleParsedResetting(st, parsed) ==
    IF parsed.ok THEN ProcessDelta(st, parsed.value).st
    ELSE [st EXCEPT !.toolCallBuffers = <<>>, !.textToolActive = NoActive]

\* The try block: what JSON.parse or processDelta throws is caught and ignored.
HandleParsed(st, parsed) ==
    IF parsed.ok THEN ProcessDelta(st, parsed.value).st ELSE st

HandleData(st, data) ==
    IF data = DoneMarker
    THEN FlushActiveTextToolCall(FlushToolCallBuffers(st, FALSE).st)
    ELSE HandleParsed(st, ParseFrame(data))

\* The body of `for (const line of lines)` in processStreamingResponse.
HandleLine(st, line) ==
    IF ~StartsWith(line, DataPrefix) THEN st
    ELSE HandleData(st, SliceFrom(line, Len(DataPrefix)))

RECURSIVE HandleLines(_, _, _)
HandleLines(st, lines, i) ==
    IF i > Len(lines) THEN st ELSE HandleLines(HandleLine(st, lines[i]), lines, i + 1)

\* TextDecoder.decode(bytes, { stream: true }) for UTF-8, over the bytes of the
\* model: ASCII, and 0xC3 0xA9 (U+00E9). pending is the lead byte held back
\* from the chunk before. A lead byte is held back until the next byte shows
\* whether it completes the character; if it does not, U+FFFD stands for it.
\* The characters that come out when bytes[i] is read:
DecodeAt(pending, bytes, i) ==
    LET held == IF i = 1 THEN pending # <<>> ELSE bytes[i - 1] = "0xC3"
    IN  IF bytes[i] = "0xA9" THEN (IF held THEN <<"U+00E9">> ELSE <<"U+FFFD">>)
        ELSE (IF held THEN <<"U+FFFD">> ELSE <<>>)
             \o (IF bytes[i] = "0xC3" THEN <<>> ELSE <<bytes[i]>>)

\* The characters that come out of bytes[lo..hi].
RECURSIVE DecodeRange(_, _, _, _)
DecodeRange(pending, bytes, lo, hi) ==
    IF lo > hi THEN <<>>
    ELSE IF lo = hi THEN DecodeAt(pending, bytes, lo)
    ELSE DecodeRange(pending, bytes, lo, (lo + hi) \div 2)
         \o DecodeRange(pending, bytes, ((lo + hi) \div 2) + 1, hi)

Decode(pending, bytes) ==
    [text |-> DecodeRange(pending, bytes, 1, Len(bytes)),
     pending |-> IF Len(bytes) = 0 THEN pending
                 ELSE IF bytes[Len(bytes)] = "0xC3" THEN <<"0xC3">>
                 ELSE <<>>]

\* The k-th of the positions breaks, 0 before the first and past the end of
\* s after the last.
BreakAt(s, breaks, k) ==
    IF k = 0 THEN 0
    ELSE IF k > Cardinality(breaks) THEN Len(s) + 1
    ELSE CHOOSE i \in breaks : Cardinality({ j \in breaks : j < i }) = k - 1

SplitAt(s, breaks) ==
    [k \in 1..(Cardinality(breaks) + 1) |->
        SubSeq(s, BreakAt(s, breaks, k - 1) + 1, BreakAt(s, breaks, k) - 1)]

\* s.split("\n")
Split(s) == SplitAt(s, { i \in 1..Len(s) : s[i] = "\n" })

\* Mutant: the unfinished last line is dropped.
HeldBackDropped(lines) == <<>>

\* lines.pop() || ""
HeldBack(lines) == lines[Len(lines)]

\* The for loop over lines, and what is held back for the next turn.
HandleSplit(st, lines, pending) ==
    [st |-> HandleLines(st, SubSeq(lines, 1, Len(lines) - 1), 1),
     buffer |-> HeldBack(lines),
     pending |-> pending,
     handled |-> Len(lines) - 1]

HandleDecoded(st, buf, decoded) ==
    HandleSplit(st, Split(buf \o decoded.text), decoded.pending)

\* One turn of the read loop with the chunk value.
ReadStep(st, buf, pending, value) == HandleDecoded(st, buf, Decode(pending, value))

(***************************************************************************)
(* SpecFrames: the lines of a response arrive whole, one at a time.        *)
(***************************************************************************)

MaxFrames == 3

StreamIdle ==
    /\ provider = FreshState
    /\ handled = 0
    /\ stream = <<>>
    /\ deltas = <<>>
    /\ pos = 0
    /\ buffer = <<>>
    /\ decoderPending = <<>>
    /\ splitSeen = [line |-> FALSE, char |-> FALSE]
    /\ streamPc = "idle"

\* provideLanguageModelChatResponse has reset the streaming state and
\* processStreamingResponse starts.
FramesInit ==
    /\ provider = FreshState
    /\ handled = 0
    /\ stream = <<>>
    /\ deltas = <<>>
    /\ pos = 0
    /\ buffer = <<>>
    /\ decoderPending = <<>>
    /\ splitSeen = [line |-> FALSE, char |-> FALSE]
    /\ streamPc = "lines"

\* The line is handled; stream keeps the text of the body so far.
LineArrives(line) ==
    /\ provider' = HandleLine(provider, line)
    /\ stream' = stream \o line \o <<"\n">>
    /\ handled' = handled + 1

\* A data line with a frame.
DataLineArrives ==
    /\ streamPc = "lines"
    /\ handled < MaxFrames
    /\ \E f \in Frames : LineArrives(DataLineOf(f))
    /\ UNCHANGED <<deltas, pos, buffer, decoderPending, splitSeen, streamPc>>
    /\ UNCHANGED <<trimVars, netVars, transformVars, requestVars, concurrentVars, chatVars>>

\* Data lines whose payload is no JSON: "data: x", "data: {" and "data: ".
MalformedLines ==
    {DataPrefix \o <<"x">>, DataPrefix \o <<"{">>, DataPrefix}

\* A data line whose payload JSON.parse rejects.
MalformedLineArrives ==
    /\ streamPc = "lines"
    /\ handled < MaxFrames
    /\ \E line \in MalformedLines : LineArrives(line)
    /\ UNCHANGED <<deltas, pos, buffer, decoderPending, splitSeen, streamPc>>
    /\ UNCHANGED <<trimVars, netVars, transformVars, requestVars, concurrentVars, chatVars>>

\* The line "data: [DONE]".
DoneLineArrives ==
    /\ streamPc = "lines"
    /\ handled < MaxFrames
    /\ LineArrives(DataPrefix \o DoneMarker)
    /\ UNCHANGED <<deltas, pos, buffer, decoderPending, splitSeen, streamPc>>
    /\ UNCHANGED <<trimVars, netVars, transformVars, requestVars, concurrentVars, chatVars>>

\* reader.read() resolves with done.
FramesEnd ==
    /\ streamPc = "lines"
    /\ streamPc' = "done"
    /\ UNCHANGED <<provider, handled, stream, deltas, pos, buffer, decoderPending, splitSeen>>
    /\ UNCHANGED <<trimVars, netVars, transformVars, requestVars, concurrentVars, chatVars>>

(***************************************************************************)
(* SpecDispatch: a response of frames of DispatchFrames.                   *)
(***************************************************************************)

\* A data line with a frame of DispatchFrames.
DispatchLineArrives ==
    /\ streamPc = "lines"
    /\ handled < MaxFrames
    /\ \E f \in DispatchFrames : LineArrives(DataLineOf(f))
    /\ UNCHANGED <<deltas, pos, buffer, decoderPending, splitSeen, streamPc>>
    /\ UNCHANGED <<trimVars, netVars, transformVars, requestVars, concurrentVars, chatVars>>

(***************************************************************************)
(* SpecInline: a response of content deltas with inline tool calls, and    *)
(* done sentinels.                                                         *)
(***************************************************************************)

MaxChunks == 4

InlineLines == { DataLineOf(f) : f \in InlineFrames } \cup {DataPrefix \o DoneMarker}

\* A data line with a content delta of InlineChunks, or the done sentinel.
InlineLineArrives ==
    /\ streamPc = "lines"
    /\ handled < MaxChunks
    /\ \E line \in InlineLines : LineArrives(line)
    /\ UNCHANGED <<deltas, pos, buffer, decoderPending, splitSeen, streamPc>>
    /\ UNCHANGED <<trimVars, netVars, transformVars, requestVars, concurrentVars, chatVars>>

(***************************************************************************)
(* SpecRepeat: a response of text deltas, long enough for the repetition   *)
(* guard. The text changes at most MaxChanges times from one delta to the  *)
(* next.                                                                   *)
(***************************************************************************)

MaxDeltas == 22
MaxChanges == 2

\* The frames that carry a text delta and nothing else, with their text.
TextDeltas ==
    { [frame |-> TextDeltaFrame, text |-> TextDeltaFrame.delta],
      [frame |-> ContentFrame, text |-> ContentFrame.choices[1].delta.content],
      [frame |-> TopLevelFrame, text |-> TopLevelFrame.text] }

\* How often the text changes from one delta to the next.
Changes(ds) == Cardinality({ i \in 2..Len(ds) : ds[i] # ds[i - 1] })

\* A data line with a text delta.
TextDeltaArrives ==
    /\ streamPc = "lines"
    /\ handled < MaxDeltas
    /\ \E d \in TextDeltas :
          /\ Changes(Append(deltas, d.text)) <= MaxChanges
          /\ provider' = HandleLine(provider, DataLineOf(d.frame))
          /\ deltas' = Append(deltas, d.text)
    /\ handled' = handled + 1
    /\ UNCHANGED <<stream, pos, buffer, decoderPending, splitSeen, streamPc>>
    /\ UNCHANGED <<trimVars, netVars, transformVars, requestVars, concurrentVars, chatVars>>

(***************************************************************************)
(* SpecRequests: provideLanguageModelChatResponse is called again and      *)
(* again on the one provider instance, each call after the one before has  *)
(* ended.                                                                  *)
(***************************************************************************)

MaxRequests == 2
MaxRequestFrames == 2

\* Frames that leave something in each of the streaming fields.
RequestFrames ==
    {TextDeltaFrame, ContentFrame, ToolCallOpenFrame, ToolCallCloseFrame,
     ToolCallIndex1Frame, InlineOpenFrame, InlineCloseFrame, InlineIndexedFrame}

\* Mutant: resetStreamingState without the clear() of the completed indices.
ResetStreamingStateKeepsCompleted(st) ==
    [st EXCEPT !.toolCallBuffers = <<>>,
               !.hasEmittedAssistantText = FALSE,
               !.emittedBeginToolCallsHint = FALSE,
               !.textToolParserBuffer = <<>>,
               !.textToolActive = NoActive,
               !.emittedTextToolCallKeys = {},
               !.emittedTextToolCallIds = {},
               !.partialAssistantText = <<>>,
               !.lastEmittedText = <<>>,
               !.repeatCount = 0]

\* resetStreamingState()
ResetStreamingState(st) ==
    [st EXCEPT !.toolCallBuffers = <<>>,
               !.completedToolCallIndices = {},
               !.hasEmittedAssistantText = FALSE,
               !.emittedBeginToolCallsHint = FALSE,
               !.textToolParserBuffer = <<>>,
               !.textToolActive = NoActive,
               !.emittedTextToolCallKeys = {},
               !.emittedTextToolCallIds = {},
               !.partialAssistantText = <<>>,
               !.lastEmittedText = <<>>,
               !.repeatCount = 0]

\* The call's own progress: nothing is reported to it yet.
WithNewProgress(st) == [st EXCEPT !.parts = <<>>]

NoPrevious == [ended |-> "none", unflushed |-> FALSE, activeInline |-> FALSE]

RequestIdle ==
    /\ requestNo = 0
    /\ previous = NoPrevious

\* The first call has reset the streaming state and reads its response.
RequestsInit ==
    /\ FramesInit
    /\ requestNo = 1
    /\ previous = NoPrevious

\* A data line with a frame.
RequestLineArrives ==
    /\ streamPc = "lines"
    /\ handled < MaxRequestFrames
    /\ \E f \in RequestFrames : LineArrives(DataLineOf(f))
    /\ UNCHANGED <<deltas, pos, buffer, decoderPending, splitSeen, streamPc>>
    /\ UNCHANGED <<trimVars, netVars, transformVars, requestVars, concurrentVars, chatVars>>

\* reader.read() resolves with done: the call returns.
RequestCompletes ==
    /\ streamPc = "lines"
    /\ streamPc' = "done"
    /\ UNCHANGED <<provider, handled, stream, deltas, pos, buffer, decoderPending, splitSeen>>
    /\ UNCHANGED <<trimVars, netVars, transformVars, requestVars, concurrentVars, chatVars>>

\* reader.read() rejects: the call throws, nothing is flushed or cleared.
RequestFails ==
    /\ streamPc = "lines"
    /\ streamPc' = "failed"
    /\ UNCHANGED <<provider, handled, stream, deltas, pos, buffer, decoderPending, splitSeen>>
    /\ UNCHANGED <<trimVars, netVars, transformVars, requestVars, concurrentVars, chatVars>>

\* The token is cancelled: the read loop ends.
RequestCancelled ==
    /\ streamPc = "lines"
    /\ streamPc' = "cancelled"
    /\ UNCHANGED <<provider, handled, stream, deltas, pos, buffer, decoderPending, splitSeen>>
    /\ UNCHANGED <<trimVars, netVars, transformVars, requestVars, concurrentVars, chatVars>>

\* provideLanguageModelChatResponse is called for the next request: it resets
\* the streaming state and reports to the progress of this call.
NextRequestStarts ==
    /\ streamPc \in {"done", "failed", "cancelled"}
    /\ requestNo < MaxRequests
    /\ provider' = WithNewProgress(ResetStreamingState(provider))
    /\ previous' = [ended |-> streamPc,
                    unflushed |-> provider.toolCallBuffers # <<>>,
                    activeInline |-> provider.textToolActive.active]
    /\ requestNo' = requestNo + 1
    /\ handled' = 0
    /\ stream' = <<>>
    /\ streamPc' = "lines"
    /\ UNCHANGED <<deltas, pos, buffer, decoderPending, splitSeen>>
    /\ UNCHANGED <<trimVars, netVars, transformVars, concurrentVars, chatVars>>

(***************************************************************************)
(* SpecConcurrent: two calls of provideLanguageModelChatResponse are in    *)
(* flight on the one provider instance that activate() registers. The      *)
(* streaming fields are fields of the instance; each call reports to its   *)
(* own progress. The chunks of a response hold one line each, and the      *)
(* calls take turns between chunks.                                        *)
(***************************************************************************)

Requests == {1, 2}

NotStarted == [pc |-> "idle", lines |-> 0, body |-> <<>>, parts |-> <<>>]

ConcurrentIdle == inFlight = [r \in Requests |-> NotStarted]

ConcurrentInit ==
    /\ StreamIdle
    /\ ConcurrentIdle

\* The instance's fields as the call r works on them: what it reports goes
\* to its own progress.
FieldsFor(r) == [provider EXCEPT !.parts = inFlight[r].parts]

\* The call r has handled a line: st is the state after it.
HandledBy(r, st, line) ==
    /\ provider' = st
    /\ inFlight' = [inFlight EXCEPT ![r].parts = st.parts,
                                    ![r].lines = @ + 1,
                                    ![r].body = @ \o line \o <<"\n">>]

\* provideLanguageModelChatResponse is called: resetStreamingState().
ConcurrentRequestStarts ==
    /\ \E r \in Requests :
          /\ inFlight[r].pc = "idle"
          /\ provider' = ResetStreamingState(provider)
          /\ inFlight' = [inFlight EXCEPT ![r].pc = "lines"]
    /\ UNCHANGED <<handled, stream, deltas, pos, buffer, decoderPending, splitSeen, streamPc>>
    /\ UNCHANGED <<trimVars, netVars, transformVars, requestVars, chatVars>>

\* The reader of a call hands out a chunk with a data line.
ConcurrentLineArrives ==
    /\ \E r \in Requests : \E f \in RequestFrames :
          /\ inFlight[r].pc = "lines"
          /\ inFlight[r].lines < MaxRequestFrames
          /\ HandledBy(r, HandleLine(FieldsFor(r), DataLineOf(f)), DataLineOf(f))
    /\ UNCHANGED <<handled, stream, deltas, pos, buffer, decoderPending, splitSeen, streamPc>>
    /\ UNCHANGED <<trimVars, netVars, transformVars, requestVars, chatVars>>

\* The reader of a call is done: the call returns.
ConcurrentRequestEnds ==
    /\ \E r \in Requests :
          /\ inFlight[r].pc = "lines"
          /\ inFlight' = [inFlight EXCEPT ![r].pc = "done"]
    /\ UNCHANGED <<provider, handled, stream, deltas, pos, buffer, decoderPending, splitSeen,
                   streamPc>>
    /\ UNCHANGED <<trimVars, netVars, transformVars, requestVars, chatVars>>

(***************************************************************************)
(* SpecBytes: the body of a response arrives as bytes in chunks.           *)
(***************************************************************************)

MaxLines == 2
MaxChunk == 8

\* data: {"text":"é"}
DataTopLevelLine ==
    <<"d", "a", "t", "a", ":", " ", "{", "\"", "t", "e", "x", "t", "\"", ":", "\"",
      "0xC3", "0xA9", "\"", "}">>

\* data: {"text":"<|tool_call_begin|>f<|tool_call_end|>"}
DataInlineLine ==
    <<"d", "a", "t", "a", ":", " ", "{", "\"", "t", "e", "x", "t", "\"", ":", "\"",
      "<", "|", "t", "o", "o", "l", "_", "c", "a", "l", "l", "_", "b", "e", "g", "i",
      "n", "|", ">", "f", "<", "|", "t", "o", "o", "l", "_", "c", "a", "l", "l", "_",
      "e", "n", "d", "|", ">", "\"", "}">>

\* data: [DONE]
DoneLine ==
    <<"d", "a", "t", "a", ":", " ", "[", "D", "O", "N", "E", "]">>

\* the empty line
BlankLine ==
    <<>>

\* : ping
CommentLine ==
    <<":", " ", "p", "i", "n", "g">>

\* data: x
GarbageLine ==
    <<"d", "a", "t", "a", ":", " ", "x">>

StreamLines == {DataTopLevelLine, DataInlineLine, DoneLine, BlankLine, CommentLine, GarbageLine}

\* The lines one after the other, each closed by "\n"; the last one only
\* when the body is terminated.
RECURSIVE StreamOf(_, _)
StreamOf(ls, terminated) ==
    IF Len(ls) = 0 THEN <<>>
    ELSE IF Len(ls) = 1 THEN ls[1] \o (IF terminated THEN <<"\n">> ELSE <<>>)
    ELSE ls[1] \o <<"\n">> \o StreamOf(Tail(ls), terminated)

BytesInit ==
    /\ \E n \in 0..MaxLines : \E ls \in [1..n -> StreamLines] : \E terminated \in BOOLEAN :
          stream = StreamOf(ls, terminated)
    /\ provider = FreshState
    /\ handled = 0
    /\ deltas = <<>>
    /\ pos = 0
    /\ buffer = <<>>
    /\ decoderPending = <<>>
    /\ splitSeen = [line |-> FALSE, char |-> FALSE]
    /\ streamPc = "reading"

\* The sizes the next chunk can have when remaining bytes are left.
ChunkSizes(remaining) == (1..Min(MaxChunk, remaining)) \cup {remaining}

\* The loop's variables after a turn with n bytes, r being what the turn made.
AfterRead(r, n) ==
    /\ provider' = r.st
    /\ buffer' = r.buffer
    /\ decoderPending' = r.pending
    /\ handled' = handled + r.handled
    /\ pos' = pos + n
    /\ splitSeen' = [line |-> splitSeen.line \/ (pos + n < Len(stream) /\ r.buffer # <<>>),
                     char |-> splitSeen.char \/ r.pending # <<>>]

\* reader.read() resolves with a chunk, and the loop body runs on it.
ReadChunk ==
    /\ streamPc = "reading"
    /\ pos < Len(stream)
    /\ \E n \in ChunkSizes(Len(stream) - pos) :
          AfterRead(ReadStep(provider, buffer, decoderPending,
                             SubSeq(stream, pos + 1, pos + n)), n)
    /\ UNCHANGED <<stream, deltas, streamPc>>
    /\ UNCHANGED <<trimVars, netVars, transformVars, requestVars, concurrentVars, chatVars>>

\* reader.read() resolves with done: the loop ends.
ReadDone ==
    /\ streamPc = "reading"
    /\ pos = Len(stream)
    /\ streamPc' = "done"
    /\ UNCHANGED <<provider, handled, stream, deltas, pos, buffer, decoderPending, splitSeen>>
    /\ UNCHANGED <<trimVars, netVars, transformVars, requestVars, concurrentVars, chatVars>>

\* The token is cancelled: reader.cancel() makes the pending read resolve with
\* done, and the loop ends.
StreamCancel ==
    /\ streamPc = "reading"
    /\ streamPc' = "cancelled"
    /\ UNCHANGED <<provider, handled, stream, deltas, pos, buffer, decoderPending, splitSeen>>
    /\ UNCHANGED <<trimVars, netVars, transformVars, requestVars, concurrentVars, chatVars>>

(***************************************************************************)
(* litellmClient.ts: transformToResponsesFormat. The ids of tool calls are *)
(* sequences of characters; the other strings are only copied.             *)
(***************************************************************************)

MaxRequestMsgs == 3

FcPrefix == <<"f", "c", "_">>

Call1 == <<"c", "a", "l", "l", "1">>
Call2 == <<"c", "a", "l", "l", "2">>
FcCall1 == FcPrefix \o Call1

\* An id that is not there.
NoId == <<"undefined">>

\* The ids the messages of the model carry.
IdsOfModel == {<<>>, Call1, FcCall1, Call2}

StringContent(text) == [kind |-> "string", text |-> text, items |-> <<>>]
ArrayContent(items) == [kind |-> "array", text |-> "", items |-> items]
NoContent == [kind |-> "none", text |-> "", items |-> <<>>]

ToolCallOf(id) == [id |-> id, name |-> "do", arguments |-> "{}"]

RequestMessage(role, content, toolCalls, toolCallId) ==
    [role |-> role, content |-> content, tool_calls |-> toolCalls,
     tool_call_id |-> toolCallId]

\* The messages a request is made of.
RequestMessageKinds ==
    {RequestMessage("system", StringContent("be brief"), <<>>, NoId),
     RequestMessage("system", StringContent("be kind"), <<>>, NoId),
     RequestMessage("system", ArrayContent(<<[type |-> "text", text |-> "be bold"]>>),
                    <<>>, NoId),
     RequestMessage("system", NoContent, <<>>, NoId),
     RequestMessage("user", StringContent("hello"), <<>>, NoId),
     RequestMessage("user",
                    ArrayContent(<<[type |-> "text", text |-> "look"],
                                   [type |-> "image_url", text |-> ""],
                                   [type |-> "text", text |-> ""]>>),
                    <<>>, NoId),
     RequestMessage("assistant", StringContent("fine"), <<>>, NoId),
     RequestMessage("assistant", NoContent, <<ToolCallOf(Call1), ToolCallOf(Call2)>>, NoId)}
    \cup { RequestMessage("assistant", NoContent, <<ToolCallOf(id)>>, NoId) :
             id \in IdsOfModel }
    \cup { RequestMessage("tool", StringContent("ok"), <<>>, id) : id \in IdsOfModel }

RequestMessageLists ==
    UNION { [1..n -> RequestMessageKinds] : n \in 0..MaxRequestMsgs }

\* instructions is a string or undefined: <<text>>, or no text.
NoInstructions == <<>>

\* Mutant: the prefix is put before every id.
NormalizeIdAlways(id) == FcPrefix \o id

\* `if (normalizedId && !normalizedId.startsWith("fc_")) { normalizedId = `fc_${normalizedId}` }`
NormalizeId(id) ==
    IF id # <<>> /\ ~StartsWith(id, FcPrefix) THEN FcPrefix \o id ELSE id

\* The first loop: the keys of toolCallIdMap are the ids of the tool calls of
\* the assistant messages, and the value of a key is NormalizeId of it.
ToolCallIdMapKeys(msgs) ==
    UNION { { msgs[k].tool_calls[j].id : j \in 1..Len(msgs[k].tool_calls) } :
              k \in { k \in 1..Len(msgs) : msgs[k].role = "assistant" } }

\* toolCallIdMap.get(id)
ToolCallIdMapGet(keys, id) == IF id \in keys THEN NormalizeId(id) ELSE NoId

\* a || b, for ids
IdOr(a, b) == IF a # NoId /\ a # <<>> THEN a ELSE b

InputItem(type, role, content, id, name, arguments, callId, output) ==
    [type |-> type, role |-> role, content |-> content, id |-> id, name |-> name,
     arguments |-> arguments, call_id |-> callId, output |-> output]

MessageItem(role, content) == InputItem("message", role, content, NoId, "", "", NoId, "")

\* Mutant: the item is put in front of the array.
PushFirst(acc, item) == [acc EXCEPT !.input = <<item>> \o @]

\* inputArray.push(item)
Push(acc, item) == [acc EXCEPT !.input = Append(@, item)]

\* The items of a user message whose content is an array.
RECURSIVE UserItemsFrom(_, _, _)
UserItemsFrom(acc, items, i) ==
    IF i > Len(items) THEN acc
    ELSE UserItemsFrom(IF items[i].type = "text" /\ items[i].text # ""
                       THEN Push(acc, MessageItem("user", items[i].text))
                       ELSE acc,
                       items, i + 1)

OfUser(acc, content) ==
    IF content.kind = "string" THEN Push(acc, MessageItem("user", content.text))
    ELSE IF content.kind = "array" THEN UserItemsFrom(acc, content.items, 1)
    ELSE acc

\* addedToolCalls.add(normalizedId) and the push of the function_call item.
AddFunctionCall(acc, normalizedId, tc) ==
    [Push(acc, InputItem("function_call", "", "", normalizedId, tc.name, tc.arguments,
                         NoId, ""))
        EXCEPT !.added = @ \cup {normalizedId}]

RECURSIVE FunctionCallsFrom(_, _, _, _)
FunctionCallsFrom(acc, keys, toolCalls, j) ==
    IF j > Len(toolCalls) THEN acc
    ELSE FunctionCallsFrom(
            AddFunctionCall(acc, IdOr(ToolCallIdMapGet(keys, toolCalls[j].id), toolCalls[j].id),
                            toolCalls[j]),
            keys, toolCalls, j + 1)

OfAssistant(acc, keys, msg) ==
    FunctionCallsFrom(IF msg.content.kind = "string"
                      THEN Push(acc, MessageItem("assistant", msg.content.text))
                      ELSE acc,
                      keys, msg.tool_calls, 1)

\* Mutant: every tool result is forwarded.
HasFunctionCallAlways(added, normalizedId) == TRUE

\* addedToolCalls.has(normalizedId)
HasFunctionCall(added, normalizedId) == normalizedId \in added

FunctionCallOutput(acc, normalizedId, output) ==
    IF HasFunctionCall(acc.added, normalizedId)
    THEN Push(acc, InputItem("function_call_output", "", "", NoId, "", "", normalizedId,
                             output))
    ELSE acc

OfTool(acc, keys, msg) ==
    IF msg.tool_call_id = NoId \/ msg.tool_call_id = <<>> THEN acc
    ELSE FunctionCallOutput(
            acc,
            IdOr(ToolCallIdMapGet(keys, msg.tool_call_id),
                 IF StartsWith(msg.tool_call_id, FcPrefix) THEN msg.tool_call_id
                 ELSE FcPrefix \o msg.tool_call_id),
            msg.content.text)

\* The body of the second loop.
OfMessage(acc, keys, msg) ==
    IF msg.role = "system"
    THEN [acc EXCEPT !.instructions = IF msg.content.kind = "string" THEN <<msg.content.text>>
                                      ELSE NoInstructions]
    ELSE IF msg.role = "user" THEN OfUser(acc, msg.content)
    ELSE IF msg.role = "assistant" THEN OfAssistant(acc, keys, msg)
    ELSE IF msg.role = "tool" THEN OfTool(acc, keys, msg)
    ELSE acc

RECURSIVE TranslateFrom(_, _, _, _)
TranslateFrom(acc, keys, msgs, k) ==
    IF k > Len(msgs) THEN acc
    ELSE TranslateFrom(OfMessage(acc, keys, msgs[k]), keys, msgs, k + 1)

\* transformToResponsesFormat(requestBody): the input and the instructions of
\* the body it returns.
TransformToResponsesFormat(msgs) ==
    TranslateFrom([input |-> <<>>, added |-> {}, instructions |-> NoInstructions],
                  ToolCallIdMapKeys(msgs), msgs, 1)

\* A tool list that is undefined, and one that is an array.
NoToolList == [defined |-> FALSE, list |-> <<>>]
ToolList(list) == [defined |-> TRUE, list |-> list]

\* tool_choice: undefined, "auto", or the choice of one function.
NoToolChoice == "undefined"
ToolChoices == {NoToolChoice, "auto", "function:do"}

\* The most tool definitions of a request.
MaxTools == 2

\* A tool definition's function: a name, a description and parameters, each
\* of which can be missing ("" for a string that is empty or undefined).
ToolDefinition(name, description, parameters) ==
    [name |-> name, description |-> description, parameters |-> parameters]

ToolDefinitions ==
    {ToolDefinition("do", "does it", "{}"), ToolDefinition("", "does it", "{}"),
     ToolDefinition("do", "", "{}"), ToolDefinition("do", "does it", "undefined")}

ToolRequests ==
    { [tools |-> t, tool_choice |-> c] :
        t \in {NoToolList} \cup UNION { { ToolList(l) : l \in [1..n -> ToolDefinitions] } :
                                          n \in 0..MaxTools },
        c \in ToolChoices }

NoTools == [tools |-> NoToolList, tool_choice |-> NoToolChoice]

\* `!func.name || !func.description || !func.parameters` is false.
IsForwarded(func) ==
    func.name # "" /\ func.description # "" /\ func.parameters # "undefined"

\* requestBody.tools.map(...).filter((t) => t !== null), when there are tools.
ResponseToolsOf(tools) ==
    IF tools.defined THEN ToolList(SelectSeq(tools.list, IsForwarded)) ELSE NoToolList

\* `if (requestBody.tool_choice && responsesBody.tools)`: an array is truthy,
\* the empty one too.
ResponseToolChoiceOf(choice, responseTools) ==
    IF choice # NoToolChoice /\ responseTools.defined THEN choice ELSE NoToolChoice

Returned(acc, req) ==
    [status |-> "returned", input |-> acc.input, instructions |-> acc.instructions,
     tools |-> ResponseToolsOf(req.tools),
     tool_choice |-> ResponseToolChoiceOf(req.tool_choice, ResponseToolsOf(req.tools))]

NoBody ==
    [status |-> "pending", input |-> <<>>, instructions |-> NoInstructions,
     tools |-> NoToolList, tool_choice |-> NoToolChoice]

TransformIdle ==
    /\ requestMessages = <<>>
    /\ requestTools = NoTools
    /\ responsesBody = NoBody

\* A request without tools.
TransformInit ==
    /\ requestMessages \in RequestMessageLists
    /\ requestTools = NoTools
    /\ responsesBody = NoBody

\* A request of at most one message, with or without tools and tool_choice.
ToolsInit ==
    /\ requestMessages \in { l \in RequestMessageLists : Len(l) <= 1 }
    /\ requestTools \in ToolRequests
    /\ responsesBody = NoBody

\* transformToResponsesFormat is called with the request and returns.
TransformRequest ==
    /\ responsesBody.status = "pending"
    /\ responsesBody' = Returned(TransformToResponsesFormat(requestMessages), requestTools)
    /\ UNCHANGED <<requestMessages, requestTools>>
    /\ UNCHANGED <<trimVars, netVars, streamVars, requestVars, concurrentVars, chatVars>>

(***************************************************************************)
(* liteLLMProvider.ts: provideLanguageModelChatResponse from the request   *)
(* body to the stream: the call of client.chat, the retry without the      *)
(* optional parameters, and the error that reaches the caller.             *)
(***************************************************************************)

\* A parameter the body lacks.
Absent == "absent"

\* The parameters the retry deletes.
OptionalParameters ==
    {"temperature", "top_p", "frequency_penalty", "presence_penalty", "stop"}

\* The request body at the first call: model, messages, stream and max_tokens
\* always, each optional parameter and tools when the options and the model
\* bring them.
BodyWith(present) ==
    [model |-> "m", messages |-> "messages", stream |-> TRUE, max_tokens |-> "1024",
     temperature |-> IF "temperature" \in present THEN "0.7" ELSE Absent,
     top_p |-> IF "top_p" \in present THEN "0.9" ELSE Absent,
     frequency_penalty |-> IF "frequency_penalty" \in present THEN "0.2" ELSE Absent,
     presence_penalty |-> IF "presence_penalty" \in present THEN "0.1" ELSE Absent,
     stop |-> IF "stop" \in present THEN "END" ELSE Absent,
     tools |-> IF "tools" \in present THEN "tools" ELSE Absent]

RequestBodies ==
    { BodyWith(present) : present \in SUBSET (OptionalParameters \cup {"tools"}) }

\* parts.join("\n")
RECURSIVE JoinLines(_)
JoinLines(parts) ==
    IF Len(parts) = 0 THEN <<>>
    ELSE IF Len(parts) = 1 THEN parts[1]
    ELSE parts[1] \o <<"\n">> \o JoinLines(Tail(parts))

\* message.split("\n").slice(1).join("\n")
ErrorTextOf(message) == JoinLines(Tail(Split(message)))

ApiErrorMark ==
    <<"L", "i", "t", "e", "L", "L", "M", " ", "A", "P", "I", " ", "e", "r", "r", "o",
      "r">>
UnsupportedParameter ==
    <<"u", "n", "s", "u", "p", "p", "o", "r", "t", "e", "d", " ", "p", "a", "r", "a",
      "m", "e", "t", "e", "r">>
NotSupported ==
    <<"n", "o", "t", " ", "s", "u", "p", "p", "o", "r", "t", "e", "d">>
ErrorKey ==
    <<"{", "\"", "e", "r", "r", "o", "r", "\"", ":">>
MessageKey ==
    <<"{", "\"", "m", "e", "s", "s", "a", "g", "e", "\"", ":">>
StatusMark ==
    <<"e", "r", "r", "o", "r", ":", " ">>
CancelledByUser ==
    <<"O", "p", "e", "r", "a", "t", "i", "o", "n", " ", "c", "a", "n", "c", "e", "l",
      "l", "e", "d", " ", "b", "y", " ", "u", "s", "e", "r">>
ApiRequestFailed ==
    <<"A", "P", "I", " ", "r", "e", "q", "u", "e", "s", "t", " ", "f", "a", "i", "l",
      "e", "d", " ", "w", "i", "t", "h", " ", "s", "t", "a", "t", "u", "s", " ">>
LiteLLMError ==
    <<"L", "i", "t", "e", "L", "L", "M", " ", "E", "r", "r", "o", "r", " ", "(", "m",
      ")", ":", " ">>
Temperature ==
    <<"t", "e", "m", "p", "e", "r", "a", "t", "u", "r", "e">>
UnsupportedValue ==
    <<"u", "n", "s", "u", "p", "p", "o", "r", "t", "e", "d", " ", "v", "a", "l", "u",
      "e">>
TemperatureHint ==
    <<".", " ", "T", "h", "i", "s", " ", "m", "o", "d", "e", "l", " ", "m", "a", "y",
      " ", "n", "o", "t", " ", "s", "u", "p", "p", "o", "r", "t", " ", "c", "e", "r",
      "t", "a", "i", "n", " ", "p", "a", "r", "a", "m", "e", "t", "e", "r", "s", " ",
      "l", "i", "k", "e", " ", "t", "e", "m", "p", "e", "r", "a", "t", "u", "r", "e",
      ".", " ", "P", "l", "e", "a", "s", "e", " ", "c", "h", "e", "c", "k", " ", "y",
      "o", "u", "r", " ", "m", "o", "d", "e", "l", " ", "s", "e", "t", "t", "i", "n",
      "g", "s", ".">>

\* errorText.slice(0, 200)
MessageLimit == 200

\* The string in a string literal.
Unquoted(lit) == SubSeq(lit, 2, Len(lit) - 1)

\* parsed.error?.message of a parsed body, the empty string when there is none.
MessageIn(inner) ==
    IF inner.ok /\ inner.kind = "object" /\ StartsWith(inner.text, MessageKey)
    THEN LET m == JsonValue(inner.text, Len(MessageKey) + 1)
         IN  IF m.kind = "string" THEN Unquoted(m.text) ELSE <<>>
    ELSE <<>>

ErrorMessageIn(v) ==
    IF v.ok /\ v.kind = "object" /\ StartsWith(v.text, ErrorKey)
    THEN MessageIn(JsonValue(v.text, Len(ErrorKey) + 1))
    ELSE <<>>

FallbackMessage(statusCode, errorText) ==
    IF Len(errorText) > MessageLimit THEN Slice(errorText, 0, MessageLimit)
    ELSE IF Len(errorText) > 0 THEN errorText
    ELSE ApiRequestFailed \o statusCode

PreferMessage(message, statusCode, errorText) ==
    IF Len(message) > 0 THEN message ELSE FallbackMessage(statusCode, errorText)

\* parseApiError(statusCode, errorText); statusCode is written with digits.
ParseApiError(statusCode, errorText) ==
    PreferMessage(ErrorMessageIn(JsonParse(errorText)), statusCode, errorText)

\* Mutant: a "not supported" message is no reason to retry.
Is_UnsupportedParameterOnly(parsedMessage) ==
    Includes(ToLowerCase(parsedMessage), UnsupportedParameter)

\* The test of the parsed message that decides on the retry.
Is_Unsupported(parsedMessage) ==
    \/ Includes(ToLowerCase(parsedMessage), UnsupportedParameter)
    \/ Includes(ToLowerCase(parsedMessage), NotSupported)

\* err.message.includes("LiteLLM API error")
IsApiError(message) == Includes(message, ApiErrorMark)

\* Whether the catch around the first call retries on err.
RetriesOn(message) ==
    IsApiError(message) /\ Is_Unsupported(ParseApiError(<<"4", "0", "0">>, ErrorTextOf(message)))

\* The body after the five deletes.
WithoutOptionalParameters(body) ==
    [body EXCEPT !.temperature = Absent, !.top_p = Absent, !.frequency_penalty = Absent,
                 !.presence_penalty = Absent, !.stop = Absent]

\* errorMessage.match(/error: (\d+)/): the digits, 400 when there is no match.
StatusAt(message, hits) ==
    IF hits = {} THEN <<"4", "0", "0">>
    ELSE LET i == CHOOSE i \in hits : \A j \in hits : i <= j
         IN  SubSeq(message, i + Len(StatusMark) + 1, DigitsEnd(message, i + Len(StatusMark) + 1) - 1)

StatusCodeOf(message) ==
    StatusAt(message, { i \in 0..(Len(message) - Len(StatusMark) - 1) :
                          MatchesAt(message, StatusMark, i) /\ IsDigit(message[i + Len(StatusMark) + 1]) })

WithHint(parsedMessage) ==
    IF \/ Includes(ToLowerCase(parsedMessage), Temperature)
       \/ Includes(ToLowerCase(parsedMessage), UnsupportedValue)
    THEN LiteLLMError \o parsedMessage \o TemperatureHint
    ELSE LiteLLMError \o parsedMessage

\* The message of the error the outer catch throws for err.
SurfacedMessage(message) ==
    IF IsApiError(message)
    THEN WithHint(ParseApiError(StatusCodeOf(message), ErrorTextOf(message)))
    ELSE message

BadRequestHead ==
    <<"L", "i", "t", "e", "L", "L", "M", " ", "A", "P", "I", " ", "e", "r", "r", "o",
      "r", ":", " ", "4", "0", "0", " ", "B", "a", "d", " ", "R", "e", "q", "u", "e",
      "s", "t", "\n">>
ServerErrorHead ==
    <<"L", "i", "t", "e", "L", "L", "M", " ", "A", "P", "I", " ", "e", "r", "r", "o",
      "r", ":", " ", "5", "0", "0", " ", "I", "n", "t", "e", "r", "n", "a", "l", " ",
      "S", "e", "r", "v", "e", "r", " ", "E", "r", "r", "o", "r", "\n">>
UnsupportedBody ==
    <<"{", "\"", "e", "r", "r", "o", "r", "\"", ":", "{", "\"", "m", "e", "s", "s",
      "a", "g", "e", "\"", ":", "\"", "U", "n", "s", "u", "p", "p", "o", "r", "t", "e",
      "d", " ", "p", "a", "r", "a", "m", "e", "t", "e", "r", ":", " ", "t", "e", "m",
      "p", "e", "r", "a", "t", "u", "r", "e", "\"", "}", "}">>
NotSupportedBody ==
    <<"t", "o", "p", "_", "p", " ", "i", "s", " ", "N", "O", "T", " ", "s", "u", "p",
      "p", "o", "r", "t", "e", "d">>
DetailBody ==
    <<"{", "\"", "d", "e", "t", "a", "i", "l", "\"", ":", "\"", "s", "t", "o", "p",
      " ", "i", "s", " ", "n", "o", "t", " ", "s", "u", "p", "p", "o", "r", "t", "e",
      "d", "\"", "}">>
TwoLineBody ==
    <<"B", "a", "d", " ", "R", "e", "q", "u", "e", "s", "t", "\n", "u", "n", "s", "u",
      "p", "p", "o", "r", "t", "e", "d", " ", "p", "a", "r", "a", "m", "e", "t", "e",
      "r">>
CodeBody ==
    <<"{", "\"", "e", "r", "r", "o", "r", "\"", ":", "{", "\"", "c", "o", "d", "e",
      "\"", ":", "\"", "n", "o", "t", " ", "s", "u", "p", "p", "o", "r", "t", "e", "d",
      "\"", "}", "}">>
InvalidBody ==
    <<"{", "\"", "e", "r", "r", "o", "r", "\"", ":", "{", "\"", "m", "e", "s", "s",
      "a", "g", "e", "\"", ":", "\"", "I", "n", "v", "a", "l", "i", "d", " ", "t", "e",
      "m", "p", "e", "r", "a", "t", "u", "r", "e", "\"", "}", "}">>
LateBodyEnd ==
    <<" ", "n", "o", "t", " ", "s", "u", "p", "p", "o", "r", "t", "e", "d">>
FetchFailed ==
    <<"f", "e", "t", "c", "h", " ", "f", "a", "i", "l", "e", "d">>
NoResponseBody ==
    <<"N", "o", " ", "r", "e", "s", "p", "o", "n", "s", "e", " ", "b", "o", "d", "y",
      " ", "f", "r", "o", "m", " ", "L", "i", "t", "e", "L", "L", "M", " ", "A", "P",
      "I">>
OtherNotSupported ==
    <<"P", "r", "o", "t", "o", "c", "o", "l", " ", "n", "o", "t", " ", "s", "u", "p",
      "p", "o", "r", "t", "e", "d">>

\* A body that says "not supported" after its first 200 characters.
LateBody == [i \in 1..MessageLimit |-> "x"] \o LateBodyEnd

\* The errors client.chat rejects with: API errors with a body that is JSON
\* with error.message, JSON without it, plain text, two lines, long, empty;
\* and errors that are no API errors.
ApiErrors ==
    {BadRequestHead \o UnsupportedBody, BadRequestHead \o NotSupportedBody,
     BadRequestHead \o DetailBody, BadRequestHead \o TwoLineBody,
     BadRequestHead \o CodeBody, BadRequestHead \o InvalidBody,
     BadRequestHead \o LateBody, ServerErrorHead}

ChatErrors == ApiErrors \cup {FetchFailed, NoResponseBody, OtherNotSupported}

\* KNOWN_PARAMETER_LIMITATIONS, in the order of its entries.
KNOWN_PARAMETER_LIMITATIONS ==
    <<[model |-> <<"c", "l", "a", "u", "d", "e", "-", "3", "-", "5", "-", "s", "o", "n", "n",   "e", "t">>,
       limitations |-> {"temperature"}],
      [model |-> <<"c", "l", "a", "u", "d", "e", "-", "3", "-", "5", "-", "h", "a", "i", "k",   "u">>,
       limitations |-> {"temperature"}],
      [model |-> <<"c", "l", "a", "u", "d", "e", "-", "3", "-", "o", "p", "u", "s">>,
       limitations |-> {"temperature"}],
      [model |-> <<"c", "l", "a", "u", "d", "e", "-", "3", "-", "s", "o", "n", "n", "e", "t">>,
       limitations |-> {"temperature"}],
      [model |-> <<"c", "l", "a", "u", "d", "e", "-", "3", "-", "h", "a", "i", "k", "u">>,
       limitations |-> {"temperature"}],
      [model |-> <<"c", "l", "a", "u", "d", "e", "-", "h", "a", "i", "k", "u", "-", "4", "-",   "5">>,
       limitations |-> {"temperature"}],
      [model |-> <<"g", "p", "t", "-", "5", ".", "1", "-", "c", "o", "d", "e", "x">>,
       limitations |-> {"temperature", "frequency_penalty", "presence_penalty"}],
      [model |-> <<"g", "p", "t", "-", "5", ".", "1", "-", "c", "o", "d", "e", "x", "-", "m",   "i", "n", "i">>,
       limitations |-> {"temperature", "frequency_penalty", "presence_penalty"}],
      [model |-> <<"g", "p", "t", "-", "5", ".", "1", "-", "c", "o", "d", "e", "x", "-", "m",   "a", "x">>,
       limitations |-> {"temperature", "frequency_penalty", "presence_penalty"}],
      [model |-> <<"c", "o", "d", "e", "x", "-", "m", "i", "n", "i", "-", "l", "a", "t", "e",   "s", "t">>,
       limitations |-> {"temperature", "frequency_penalty", "presence_penalty"}],
      [model |-> <<"o", "1", "-", "p", "r", "e", "v", "i", "e", "w">>,
       limitations |-> {"temperature", "top_p", "presence_penalty", "frequency_penalty"}],
      [model |-> <<"o", "1", "-", "m", "i", "n", "i">>,
       limitations |-> {"temperature", "top_p", "presence_penalty", "frequency_penalty"}],
      [model |-> <<"o", "1", "-">>,
       limitations |-> {"temperature", "top_p", "presence_penalty", "frequency_penalty"}]>>

\* this._modelInfoCache.get(model.id): undefined, an info without
\* supported_openai_params, an info with the list.
NoModelInfo == [defined |-> FALSE, listed |-> FALSE, supported_openai_params |-> {}]
UnlistedModelInfo == [defined |-> TRUE, listed |-> FALSE, supported_openai_params |-> {}]
ModelInfoWith(params) == [defined |-> TRUE, listed |-> TRUE, supported_openai_params |-> params]

\* KNOWN_PARAMETER_LIMITATIONS[modelId]?.has(param), and the loop over the
\* entries with modelId.includes(knownModel).
KnownLimitation(param, modelId) ==
    \/ \E k \in 1..Len(KNOWN_PARAMETER_LIMITATIONS) :
          /\ KNOWN_PARAMETER_LIMITATIONS[k].model = modelId
          /\ param \in KNOWN_PARAMETER_LIMITATIONS[k].limitations
    \/ \E k \in 1..Len(KNOWN_PARAMETER_LIMITATIONS) :
          /\ Includes(modelId, KNOWN_PARAMETER_LIMITATIONS[k].model)
          /\ param \in KNOWN_PARAMETER_LIMITATIONS[k].limitations

\* Mutant: the list the model advertises is asked before the known limitations.
IsParameterSupportedListFirst(param, info, modelId) ==
    IF info.defined /\ info.listed THEN param \in info.supported_openai_params
    ELSE ~(Len(modelId) > 0 /\ KnownLimitation(param, modelId))

\* isParameterSupported(param, modelInfo, modelId). _parameterProbeCache is
\* constructed empty and nothing writes to it, so its test never holds.
IsParameterSupported(param, info, modelId) ==
    IF Len(modelId) > 0 /\ KnownLimitation(param, modelId) THEN FALSE
    ELSE IF ~info.defined THEN TRUE
    ELSE IF info.listed THEN param \in info.supported_openai_params
    ELSE TRUE

ParamsToCheck == {"temperature", "stop", "frequency_penalty", "presence_penalty", "top_p"}

\* stripUnsupportedParametersFromRequest(requestBody, modelInfo, modelId)
StripUnsupportedParametersFromRequest(body, info, modelId) ==
    [p \in DOMAIN body |->
        IF p \in ParamsToCheck /\ ~IsParameterSupported(p, info, modelId) /\ body[p] # Absent
        THEN Absent
        ELSE body[p]]

O1Mini ==
    <<"o", "1", "-", "m", "i", "n", "i">>
O1Preview ==
    <<"o", "p", "e", "n", "a", "i", "/", "o", "1", "-", "p", "r", "e", "v", "i", "e",
      "w", "-", "2", "0", "2", "4">>
CodexMini ==
    <<"g", "p", "t", "-", "5", ".", "1", "-", "c", "o", "d", "e", "x", "-", "m", "i",
      "n", "i">>
ClaudeSonnet ==
    <<"c", "l", "a", "u", "d", "e", "-", "3", "-", "5", "-", "s", "o", "n", "n", "e",
      "t", "-", "l", "a", "t", "e", "s", "t">>

\* The model ids the bodies are stripped for; the last is no id.
StripIds == {O1Mini, O1Preview, CodexMini, ClaudeSonnet, ClaudeOpus, Gpt4o, <<>>}

StripModelInfos ==
    {NoModelInfo, UnlistedModelInfo, ModelInfoWith({}),
     ModelInfoWith({"temperature", "stop", "frequency_penalty"}),
     ModelInfoWith({"temperature", "top_p", "presence_penalty", "max_tokens"})}

ModelOf(id) == [id |-> id, maxInputTokens |-> MaxInputTokens, litellm_provider |-> "undefined"]

NoChatOutcome == [status |-> "pending", message |-> <<>>]
ChatThrew(message) == [status |-> "threw", message |-> message]
ChatResolved == [status |-> "returned", message |-> <<>>]

ChatIdle ==
    /\ chatPc = "idle"
    /\ requestBody = BodyWith({})
    /\ chatCalls = <<>>
    /\ tokenCancelled = FALSE
    /\ rejections = <<>>
    /\ chatOutcome = NoChatOutcome
    /\ modelInfo = NoModelInfo
    /\ modelOptions = {}
    /\ configUrl = ""
    /\ strippedFrom = BodyWith({})

ConfigurationNotFound ==
    <<"L", "i", "t", "e", "L", "L", "M", " ", "c", "o", "n", "f", "i", "g", "u", "r",
      "a", "t", "i", "o", "n", " ", "n", "o", "t", " ", "f", "o", "u", "n", "d", ".">>
ExceedsTokenLimit ==
    <<"M", "e", "s", "s", "a", "g", "e", " ", "e", "x", "c", "e", "e", "d", "s", " ",
      "t", "o", "k", "e", "n", " ", "l", "i", "m", "i", "t", ".">>
NoMessages ==
    <<"I", "n", "v", "a", "l", "i", "d", " ", "r", "e", "q", "u", "e", "s", "t", ":",
      " ", "n", "o", " ", "m", "e", "s", "s", "a", "g", "e", "s", ".">>

\* The requests of the model: no message, a user message of one token, a
\* system message of three tokens before it.
ChatMessageLists ==
    {<<>>,
     <<[pos |-> 1, role |-> "User", content |-> <<TextPart(3)>>]>>,
     <<[pos |-> 1, role |-> "System", content |-> <<TextPart(5), OtherPart, TextPart(4)>>],
       [pos |-> 2, role |-> "User", content |-> <<TextPart(3)>>]>>}

ChatModels ==
    { [id |-> id, maxInputTokens |-> t, litellm_provider |-> "undefined"] :
        id \in {Gpt4o, O1Mini, ClaudeOpus}, t \in {1, MaxInputTokens} }

ChatModelInfos == {NoModelInfo, UnlistedModelInfo, ModelInfoWith({"temperature", "stop"})}

ChatModelOptions == {{}, {"temperature", "stop", "top_p"}, OptionalParameters}

\* provideLanguageModelChatResponse is called.
ChatInit ==
    /\ chatPc = "start"
    /\ messages \in ChatMessageLists
    /\ toolsJsonLen \in {0, 5}
    /\ model \in ChatModels
    /\ trimOutcome = [status |-> "pending", selected |-> <<>>]
    /\ modelInfo \in ChatModelInfos
    /\ modelOptions \in ChatModelOptions
    /\ configUrl \in {"", "http://localhost:4000"}
    /\ requestBody = BodyWith({})
    /\ strippedFrom = BodyWith({})
    /\ chatCalls = <<>>
    /\ tokenCancelled = FALSE
    /\ rejections = <<>>
    /\ chatOutcome = NoChatOutcome

\* The request body as lines 142-194 build it: a parameter the model supports
\* gets the caller's value, temperature and the two penalties a default
\* without one; tools when the options bring any.
BuildRequestBody(options, info, modelId, jsonLen) ==
    [model |-> "m", messages |-> "messages", stream |-> TRUE, max_tokens |-> "1024",
     temperature |->
        IF ~IsParameterSupported("temperature", info, modelId) THEN Absent
        ELSE IF "temperature" \in options THEN "0.5" ELSE "0.7",
     frequency_penalty |->
        IF ~IsParameterSupported("frequency_penalty", info, modelId) THEN Absent
        ELSE IF "frequency_penalty" \in options THEN "0.5" ELSE "0.2",
     presence_penalty |->
        IF ~IsParameterSupported("presence_penalty", info, modelId) THEN Absent
        ELSE IF "presence_penalty" \in options THEN "0.5" ELSE "0.1",
     stop |->
        IF IsParameterSupported("stop", info, modelId) /\ "stop" \in options
        THEN "END" ELSE Absent,
     top_p |->
        IF IsParameterSupported("top_p", info, modelId) /\ "top_p" \in options
        THEN "0.9" ELSE Absent,
     tools |-> IF jsonLen > 0 THEN "tools" ELSE Absent]

\* A body, a model and its info before stripUnsupportedParametersFromRequest.
StripInit ==
    /\ chatPc = "strip"
    /\ requestBody \in RequestBodies
    /\ model \in { ModelOf(id) : id \in StripIds }
    /\ modelInfo \in StripModelInfos
    /\ strippedFrom = requestBody
    /\ messages = <<>>
    /\ toolsJsonLen = 0
    /\ trimOutcome = [status |-> "pending", selected |-> <<>>]
    /\ chatCalls = <<>>
    /\ tokenCancelled = FALSE
    /\ rejections = <<>>
    /\ chatOutcome = NoChatOutcome
    /\ modelOptions = {}
    /\ configUrl = "http://localhost:4000"

\* stripUnsupportedParametersFromRequest is called on the body.
Strip ==
    /\ chatPc = "strip"
    /\ chatPc' = "stripped"
    /\ requestBody' = StripUnsupportedParametersFromRequest(requestBody, modelInfo, model.id)
    /\ UNCHANGED <<chatCalls, tokenCancelled, rejections, chatOutcome, chatInputs>>
    /\ UNCHANGED <<trimVars, netVars, streamVars, transformVars, requestVars, concurrentVars>>

\* client.chat(requestBody, mode, token), the first call.
CallChat ==
    /\ chatPc = "built"
    /\ chatPc' = "first"
    /\ chatCalls' = <<requestBody>>
    /\ UNCHANGED <<requestBody, tokenCancelled, rejections, chatOutcome>>
    /\ UNCHANGED chatInputs
    /\ UNCHANGED <<trimVars, netVars, streamVars, transformVars, requestVars, concurrentVars>>

\* The caller cancels the token.
CancelToken ==
    /\ chatPc \in {"start", "built", "first", "retry", "streaming"}
    /\ ~tokenCancelled
    /\ tokenCancelled' = TRUE
    /\ UNCHANGED <<chatPc, requestBody, chatCalls, rejections, chatOutcome>>
    /\ UNCHANGED chatInputs
    /\ UNCHANGED <<trimVars, netVars, streamVars, transformVars, requestVars, concurrentVars>>

\* A call of client.chat resolves with the stream; processStreamingResponse
\* takes over.
ChatResolves ==
    /\ chatPc \in {"first", "retry"}
    /\ chatPc' = "streaming"
    /\ UNCHANGED <<requestBody, chatCalls, tokenCancelled, rejections, chatOutcome>>
    /\ UNCHANGED chatInputs
    /\ UNCHANGED <<trimVars, netVars, streamVars, transformVars, requestVars, concurrentVars>>

\* The outer catch: the request ends with Error(errorMessage).
Fails(message) ==
    /\ chatPc' = "failed"
    /\ chatOutcome' = ChatThrew(SurfacedMessage(message))
    /\ UNCHANGED <<requestBody, chatCalls>>

\* The body is built, stripped and kept for the call of client.chat.
Built(body) ==
    /\ chatPc' = "built"
    /\ strippedFrom' = body
    /\ requestBody' = StripUnsupportedParametersFromRequest(body, modelInfo, model.id)
    /\ UNCHANGED <<chatOutcome, chatCalls>>

\* Mutant: what the trimmer throws is not looked at.
AfterTrimIgnoringThrow(trimmed) ==
    Built(BuildRequestBody(modelOptions, modelInfo, model.id, toolsJsonLen))

\* What follows the trimmer: validateRequest, which throws on no message (the
\* messages of the model carry no tool calls), and the request body.
AfterTrim(trimmed) ==
    IF trimmed.status = "threw" THEN Fails(ExceedsTokenLimit) /\ UNCHANGED strippedFrom
    ELSE IF Len(trimmed.selected) = 0 THEN Fails(NoMessages) /\ UNCHANGED strippedFrom
    ELSE Built(BuildRequestBody(modelOptions, modelInfo, model.id, toolsJsonLen))

\* provideLanguageModelChatResponse up to the first call of client.chat: the
\* configuration, the trimmer, the validation and the request body.
BuildRequest ==
    /\ chatPc = "start"
    /\ IF configUrl = ""
       THEN Fails(ConfigurationNotFound) /\ UNCHANGED <<strippedFrom, trimOutcome>>
       ELSE /\ trimOutcome' = TrimMessagesToFitBudget(messages, toolsJsonLen, model)
            /\ AfterTrim(trimOutcome')
    /\ UNCHANGED <<tokenCancelled, rejections, modelInfo, modelOptions, configUrl>>
    /\ UNCHANGED <<messages, toolsJsonLen, model>>
    /\ UNCHANGED <<netVars, streamVars, transformVars, requestVars, concurrentVars>>

\* The retry: the five deletes and the second call of client.chat.
Retries ==
    /\ chatPc' = "retry"
    /\ requestBody' = WithoutOptionalParameters(requestBody)
    /\ chatCalls' = Append(chatCalls, WithoutOptionalParameters(requestBody))
    /\ UNCHANGED chatOutcome

\* The catch around the first call.
FirstCatch(message) ==
    IF tokenCancelled THEN Fails(CancelledByUser)
    ELSE IF RetriesOn(message) THEN Retries
    ELSE Fails(message)

\* The first call of client.chat rejects.
FirstChatRejects ==
    /\ chatPc = "first"
    /\ \E message \in ChatErrors :
          /\ rejections' = Append(rejections, [message |-> message, cancelled |-> tokenCancelled])
          /\ FirstCatch(message)
    /\ UNCHANGED tokenCancelled
    /\ UNCHANGED chatInputs
    /\ UNCHANGED <<trimVars, netVars, streamVars, transformVars, requestVars, concurrentVars>>

\* The second call of client.chat rejects: the error goes to the outer catch.
RetryRejects ==
    /\ chatPc = "retry"
    /\ \E message \in ChatErrors :
          /\ rejections' = Append(rejections, [message |-> message, cancelled |-> tokenCancelled])
          /\ Fails(message)
    /\ UNCHANGED tokenCancelled
    /\ UNCHANGED chatInputs
    /\ UNCHANGED <<trimVars, netVars, streamVars, transformVars, requestVars, concurrentVars>>

\* processStreamingResponse returns.
ChatCompletes ==
    /\ chatPc = "streaming"
    /\ chatPc' = "done"
    /\ chatOutcome' = ChatResolved
    /\ UNCHANGED <<requestBody, chatCalls, tokenCancelled, rejections>>
    /\ UNCHANGED chatInputs
    /\ UNCHANGED <<trimVars, netVars, streamVars, transformVars, requestVars, concurrentVars>>

(***************************************************************************)
(* The specifications                                                      *)
(***************************************************************************)

InitTrim == TrimInit /\ NetIdle /\ StreamIdle /\ TransformIdle /\ RequestIdle /\ ConcurrentIdle
    /\ ChatIdle

NextTrim == Trim

SpecTrim == InitTrim /\ [][NextTrim]_vars

InitNet == NetInit /\ TrimIdle /\ StreamIdle /\ TransformIdle /\ RequestIdle /\ ConcurrentIdle
    /\ ChatIdle

NextNet ==
    \/ CallFetchWithRateLimit
    \/ FetchResolves
    \/ FetchRejects
    \/ SleepElapses
    \/ Cancel

SpecNet == InitNet /\ [][NextNet]_vars

\* Every fetch() settles and every timer fires.
NetFairness ==
    /\ WF_vars(CallFetchWithRateLimit)
    /\ WF_vars(FetchResolves \/ FetchRejects)
    /\ WF_vars(SleepElapses)

SpecNetLive == InitNet /\ [][NextNet]_vars /\ NetFairness

InitFrames == FramesInit /\ TrimIdle /\ NetIdle /\ TransformIdle /\ RequestIdle /\ ConcurrentIdle
    /\ ChatIdle

NextFrames ==
    \/ DataLineArrives
    \/ MalformedLineArrives
    \/ DoneLineArrives
    \/ FramesEnd

SpecFrames == InitFrames /\ [][NextFrames]_vars

InitInline ==
    /\ FramesInit /\ TrimIdle /\ NetIdle /\ TransformIdle /\ RequestIdle /\ ConcurrentIdle
    /\ ChatIdle

NextInline ==
    \/ InlineLineArrives
    \/ FramesEnd

SpecInline == InitInline /\ [][NextInline]_vars

InitDispatch ==
    /\ FramesInit /\ TrimIdle /\ NetIdle /\ TransformIdle /\ RequestIdle /\ ConcurrentIdle
    /\ ChatIdle

NextDispatch ==
    \/ DispatchLineArrives
    \/ FramesEnd

SpecDispatch == InitDispatch /\ [][NextDispatch]_vars

InitRepeat == FramesInit /\ TrimIdle /\ NetIdle /\ TransformIdle /\ RequestIdle /\ ConcurrentIdle
    /\ ChatIdle

NextRepeat ==
    \/ TextDeltaArrives
    \/ FramesEnd

SpecRepeat == InitRepeat /\ [][NextRepeat]_vars

InitTransform == TransformInit /\ TrimIdle /\ NetIdle /\ StreamIdle /\ RequestIdle /\ ConcurrentIdle
    /\ ChatIdle

NextTransform == TransformRequest

SpecTransform == InitTransform /\ [][NextTransform]_vars

InitTools ==
    /\ ToolsInit /\ TrimIdle /\ NetIdle /\ StreamIdle /\ RequestIdle /\ ConcurrentIdle
    /\ ChatIdle

NextTools == TransformRequest

SpecTools == InitTools /\ [][NextTools]_vars

InitRequests == RequestsInit /\ TrimIdle /\ NetIdle /\ TransformIdle /\ ConcurrentIdle
    /\ ChatIdle

NextRequests ==
    \/ RequestLineArrives
    \/ RequestCompletes
    \/ RequestFails
    \/ RequestCancelled
    \/ NextRequestStarts

SpecRequests == InitRequests /\ [][NextRequests]_vars

InitConcurrent == ConcurrentInit /\ TrimIdle /\ NetIdle /\ TransformIdle /\ RequestIdle
    /\ ChatIdle

NextConcurrent ==
    \/ ConcurrentRequestStarts
    \/ ConcurrentLineArrives
    \/ ConcurrentRequestEnds

SpecConcurrent == InitConcurrent /\ [][NextConcurrent]_vars

InitStrip ==
    /\ StripInit /\ NetIdle /\ StreamIdle /\ TransformIdle /\ RequestIdle /\ ConcurrentIdle

NextStrip == Strip

SpecStrip == InitStrip /\ [][NextStrip]_vars

InitChat ==
    /\ ChatInit /\ NetIdle /\ StreamIdle /\ TransformIdle /\ RequestIdle /\ ConcurrentIdle

NextChat ==
    \/ BuildRequest
    \/ CallChat
    \/ CancelToken
    \/ ChatResolves
    \/ FirstChatRejects
    \/ RetryRejects
    \/ ChatCompletes

SpecChat == InitChat /\ [][NextChat]_vars

InitBytes == BytesInit /\ TrimIdle /\ NetIdle /\ TransformIdle /\ RequestIdle /\ ConcurrentIdle
    /\ ChatIdle

NextBytes ==
    \/ ReadChunk
    \/ ReadDone
    \/ StreamCancel

SpecBytes == InitBytes /\ [][NextBytes]_vars

(***************************************************************************)
(* Properties of trimMessagesToFitBudget                                   *)
(***************************************************************************)

TrimBudget == Budget(model, toolsJsonLen)
TrimSystemIndex == SystemIndex(messages)
TrimRemaining == Remaining(messages)
TrimSysTokens ==
    IF TrimSystemIndex = 0 THEN 0 ELSE EstimateSingleMessageTokens(messages[TrimSystemIndex])
TrimReturned == trimOutcome.status = "returned"
TrimSelected == trimOutcome.selected

\* The messages of the output other than the kept system message.
SelectedOthers == { i \in 1..Len(TrimSelected) : TrimSelected[i].pos # TrimSystemIndex }

\* The last k messages of seq, and their estimated cost.
Suffix(seq, k) == SubSeq(seq, Len(seq) - k + 1, Len(seq))
SuffixTokens(seq, k) == EstimateMessagesTokens(Suffix(seq, k))

\* The length of the longest suffix of seq that costs at most allowance.
LongestFit(seq, allowance) ==
    CHOOSE k \in 0..Len(seq) :
        /\ SuffixTokens(seq, k) <= allowance
        /\ \A j \in (k + 1)..Len(seq) : SuffixTokens(seq, j) > allowance

NewestRemainingTokens == EstimateSingleMessageTokens(TrimRemaining[Len(TrimRemaining)])

\* C5: the output is a subsequence of the input in the input's order: no
\* message stands before one that preceded it in the input.
C5_OutputInInputOrder ==
    TrimReturned =>
        \A i, j \in 1..Len(TrimSelected) :
            i < j => TrimSelected[i].pos < TrimSelected[j].pos

C7_SystemThenLongestFittingSuffix ==
    (trimOutcome.status # "pending" /\ TrimBudget > 0
        /\ TrimSystemIndex # 0 /\ TrimSysTokens <= TrimBudget) =>
        /\ TrimReturned
        /\ TrimSelected = <<messages[TrimSystemIndex]>>
              \o Suffix(TrimRemaining, LongestFit(TrimRemaining, TrimBudget - TrimSysTokens))

\* C7 amended: when the first system-like message fits the (positive) budget,
\* the output is that message followed by the longest suffix of the
\* remaining messages that fits what is left, or, when not even the newest
\* remaining message fits, by that newest message alone.
C7_SystemThenSuffixOrNewest ==
    (trimOutcome.status # "pending" /\ TrimBudget > 0
        /\ TrimSystemIndex # 0 /\ TrimSysTokens <= TrimBudget) =>
        /\ TrimReturned
        /\ LET k == LongestFit(TrimRemaining, TrimBudget - TrimSysTokens)
           IN  TrimSelected = <<messages[TrimSystemIndex]>>
                 \o Suffix(TrimRemaining, IF k = 0 /\ Len(TrimRemaining) > 0 THEN 1 ELSE k)

\* The scan stopped at an older message that did not fit, with an even older
\* one that would have fitted left out.
C7_Witness ==
    /\ TrimReturned
    /\ TrimSystemIndex # 0
    /\ Len(TrimRemaining) = 3
    /\ Len(TrimSelected) = 2
    /\ EstimateMessagesTokens(TrimSelected) <= TrimBudget
    /\ EstimateMessagesTokens(TrimSelected)
         + EstimateSingleMessageTokens(TrimRemaining[1]) <= TrimBudget

\* C8 as stated: a non-empty input that does not fail gives an output with
\* at least one non-system message.
C8_KeepsANonSystemMessage ==
    (TrimReturned /\ Len(messages) > 0) =>
        \E i \in 1..Len(TrimSelected) : ~IsSystem(TrimSelected[i])

\* C8 amended: when the input holds a message other than its first
\* system-like message and trimming does not fail, the output holds the
\* newest such message, even when its cost exceeds what is left of the budget.
C8_KeepsNewestRemaining ==
    (TrimReturned /\ Len(TrimRemaining) > 0) =>
        /\ SelectedOthers # {}
        /\ TrimSelected[Len(TrimSelected)] = TrimRemaining[Len(TrimRemaining)]

C8_Witness ==
    /\ TrimReturned
    /\ Len(TrimRemaining) > 0
    /\ NewestRemainingTokens > TrimBudget - TrimSysTokens
    /\ Cardinality(SelectedOthers) = 1

\* C9 as stated: the call throws when the budget is non-positive or when the
\* single remaining message cannot fit the budget even alone.
C9_ThrowsWhenNothingFits ==
    (/\ trimOutcome.status # "pending"
     /\ \/ TrimBudget <= 0
        \/ Len(TrimRemaining) = 1 /\ NewestRemainingTokens > TrimBudget)
        => trimOutcome.status = "threw"

\* C9 amended: the call throws exactly when the budget is non-positive or
\* the first system-like message alone costs more than the budget; a
\* remaining message too large to fit even alone is kept, not refused.
C9_ThrowsIffNoBudgetOrSystemTooBig ==
    trimOutcome.status # "pending" =>
        (trimOutcome.status = "threw"
            <=> (TrimBudget <= 0 \/ (TrimSystemIndex # 0 /\ TrimSysTokens > TrimBudget)))

C9_Witness ==
    /\ trimOutcome.status = "threw"
    /\ TrimBudget > 0
    /\ TrimSystemIndex # 0
    /\ Len(TrimRemaining) > 0

(***************************************************************************)
(* Properties of the tool calls reported for one response                  *)
(***************************************************************************)

ToolCallParts == { i \in 1..Len(provider.parts) : provider.parts[i].kind = "toolcall" }

\* The identity of a call is (name, index) when it has an explicit index and
\* (name, canonical arguments) when it has none.
SameIdentity(p, q) ==
    /\ p.name = q.name
    /\ \/ p.index # NoNum /\ q.index # NoNum /\ p.index = q.index
       \/ p.index = NoNum /\ q.index = NoNum /\ p.input = q.input

\* C1: within one response no two reported tool call parts have the same
\* identity: the same name and explicit index, or, without an index, the same
\* name and canonical arguments.
C1_NoDuplicateToolCalls ==
    \A i, j \in ToolCallParts :
        i < j => ~SameIdentity(provider.parts[i], provider.parts[j])

(***************************************************************************)
(* Properties of processStreamingResponse                                  *)
(***************************************************************************)

\* The parts reported when the whole body arrives as one chunk.
UnsplitParts == ReadStep(FreshState, <<>>, <<>>, stream).st.parts

\* C10: when the body has been read to its end, the parts reported are those
\* reported for the same body delivered as a single chunk, whatever chunks it
\* arrived in.
C10_ChunkingIndependent ==
    streamPc = "done" => provider.parts = UnsplitParts

\* A body read to its end in chunks that ended inside a line and inside a
\* character, with a text part and a tool call part reported.
C10_Witness ==
    /\ streamPc = "done"
    /\ splitSeen.line
    /\ splitSeen.char
    /\ \E i \in 1..Len(provider.parts) : provider.parts[i].kind = "text"
    /\ ToolCallParts # {}

(***************************************************************************)
(* Properties of the tool-call buffers of processDelta                     *)
(***************************************************************************)

\* The body of the lines ls, each closed by "\n".
BodyOf(ls) == StreamOf(ls, TRUE)

\* The ToolCall parts that come from _toolCallBuffers: reported as soon as
\* the arguments parsed, or by flushToolCallBuffers.
BufferedParts ==
    { i \in ToolCallParts : provider.parts[i].via \in {"buffered", "flushed"} }

\* The index under which the call of a part was buffered: a fragment with
\* no index goes to the buffer of index 0.
SlotOf(p) == IF p.index = NoNum THEN 0 ELSE p.index

\* A buffer that tryEmitBufferedToolCall reports: it has a name and its
\* arguments parse as a JSON object.
Emittable(buf) == Truthy(buf.name) /\ TryParseJSONObject(buf.args).ok

\* C11: the calls assembled from tool_calls fragments are reported once per
\* index and without waiting for the finish frame: no buffer that has a name
\* and arguments that parse as a JSON object is left waiting after a frame,
\* no two parts come from the buffer of one index, and the completed indices
\* are exactly the indices of the parts reported, so a later finish frame
\* reports none of them again.
C11_EarlyEmissionOncePerIndex ==
    /\ \A k \in 1..Len(provider.toolCallBuffers) : ~Emittable(provider.toolCallBuffers[k])
    /\ \A i, j \in BufferedParts :
          i < j => SlotOf(provider.parts[i]) # SlotOf(provider.parts[j])
    /\ provider.completedToolCallIndices =
          { SlotOf(provider.parts[i]) : i \in BufferedParts }

\* The arguments of index 0 came in two fragments and a finish frame
\* followed: the one part of the call was reported, and it is the only one.
C11_Witness ==
    /\ stream = BodyOf(<<DataLineOf(ToolCallOpenFrame), DataLineOf(ToolCallCloseFrame),
                         DataLineOf(FinishFrame)>>)
    /\ Len(provider.parts) = 1
    /\ provider.parts[1] = ToolCallPartOf("c1", <<"f">>, <<"{", "}">>, 0, "buffered")
    /\ provider.toolCallBuffers = <<>>

\* The text is the JSON of an object.
IsJsonObject(text) == JsonParse(text).ok /\ JsonParse(text).kind = "object"

\* C15: whatever path reported it (response.output_item.done, the buffers of
\* tool_calls fragments, their flush, an inline call in the text), the
\* arguments of a ToolCall part are a JSON object.
C15_ArgumentsAreObjects ==
    \A i \in ToolCallParts : IsJsonObject(provider.parts[i].input)

\* Arguments that are an array came as tool_calls fragment and were passed
\* over by the flush at [DONE], and a call with an object was reported.
C15_Witness ==
    /\ stream = BodyOf(<<DataLineOf(ToolCallArrayFrame), DataPrefix \o DoneMarker,
                         DataLineOf(ItemDoneFrame)>>)
    /\ Len(provider.parts) = 1
    /\ provider.parts[1].kind = "toolcall"
    /\ provider.parts[1].input = <<"{", "}">>
    /\ Len(provider.toolCallBuffers) = 1

\* What the lines of the body so far make of a fresh state.
AloneOnStream == ReadStep(FreshState, <<>>, <<>>, stream).st

\* C16: a request starts from the initial streaming state however the
\* request before ended, and nothing of it depends on an earlier request:
\* at every point of a request the fields and the parts reported are those
\* the lines of this request alone make of a fresh state (before its first
\* line, the fresh state itself).
C16_RequestScopedState ==
    /\ streamPc = "lines" /\ handled = 0 => provider = FreshState
    /\ provider = AloneOnStream

\* The request before failed with a buffer not flushed and an inline call
\* open, and the second request has reported a tool call of its own.
C16_Witness ==
    /\ requestNo = 2
    /\ previous.ended = "failed"
    /\ previous.unflushed
    /\ previous.activeInline
    /\ handled = MaxRequestFrames
    /\ ToolCallParts # {}

\* The parts the body makes when its request is the only one.
PartsAlone(body) == ReadStep(FreshState, <<>>, <<>>, body).st.parts

\* C17: with two requests in flight on the instance, the parts reported to
\* each request are those its own lines yield when it runs alone.
C17_RequestsDoNotInterfere ==
    \A r \in Requests : inFlight[r].parts = PartsAlone(inFlight[r].body)

(***************************************************************************)
(* Properties of the read loop's error handling                            *)
(***************************************************************************)

\* The lines handled so far.
LinesSoFar == SubSeq(Split(stream), 1, handled)

\* The state the lines make of a fresh one.
StateAfter(lines) == HandleLines(FreshState, lines, 1)

\* The k-th line is the finish frame, and a buffer holds arguments that do
\* not parse as a JSON object when it arrives.
StrictFlushFinds(k, before) ==
    /\ LinesSoFar[k] = DataLineOf(FinishFrame)
    /\ \E b \in 1..Len(before.toolCallBuffers) :
          ~TryParseJSONObject(before.toolCallBuffers[b].args).ok

StrictFlushOnInvalid ==
    \E k \in 1..handled : StrictFlushFinds(k, StateAfter(SubSeq(LinesSoFar, 1, k - 1)))

\* C18: once a frame with finish_reason "tool_calls" has been handled while
\* a buffer held arguments that do not parse as a JSON object, the request
\* has failed: it neither goes on reading nor completes.
C18_StrictFlushIsFatal == StrictFlushOnInvalid => streamPc = "failed"

\* The parts reported when the first k lines had been handled.
PartsAfter(k) == StateAfter(SubSeq(LinesSoFar, 1, k)).parts

\* C25: once a "data: [DONE]" line has been handled, the lines after it
\* report no part: the parts are those reported when it had been handled.
C25_DoneEndsDecoding ==
    \A k \in 1..handled :
        LinesSoFar[k] = DataPrefix \o DoneMarker => provider.parts = PartsAfter(k)

\* The line is the done sentinel or a frame with a finish_reason.
IsDoneLine(line) == line = DataPrefix \o DoneMarker

FinishIn(parsed) ==
    /\ parsed.ok
    /\ \E c \in 1..Len(parsed.value.choices) : parsed.value.choices[c].finish_reason # ""

IsFinishLine(line) ==
    StartsWith(line, DataPrefix) /\ FinishIn(ParseFrame(SliceFrom(line, Len(DataPrefix))))

\* The stream ended without a finish signal and without a done sentinel.
EndedUnfinished ==
    /\ streamPc = "done"
    /\ \A k \in 1..handled : ~IsDoneLine(LinesSoFar[k]) /\ ~IsFinishLine(LinesSoFar[k])

\* C26: when the stream has ended without a finish signal and without a done
\* sentinel, no indexed buffer is left whose arguments parse as a JSON
\* object: such a buffer has been reported as a ToolCall part and deleted.
C26_EndOfStreamFlush ==
    EndedUnfinished =>
        \A b \in 1..Len(provider.toolCallBuffers) :
            ~TryParseJSONObject(provider.toolCallBuffers[b].args).ok

\* The line is a data line whose payload JSON.parse rejects.
IsMalformed(line) ==
    /\ StartsWith(line, DataPrefix)
    /\ SliceFrom(line, Len(DataPrefix)) # DoneMarker
    /\ ~ParseFrame(SliceFrom(line, Len(DataPrefix))).ok

IsWellFormed(line) == ~IsMalformed(line)

\* C19: the lines whose payload is no JSON change nothing: the streaming
\* fields and the parts reported are those of the same lines without them.
C19_MalformedFrameSkipped ==
    provider = StateAfter(SelectSeq(LinesSoFar, IsWellFormed))

\* A malformed line came between the two fragments of a tool call, and the
\* call was reported.
C19_Witness ==
    /\ stream = BodyOf(<<DataLineOf(ToolCallOpenFrame), DataPrefix \o <<"{">>,
                         DataLineOf(ToolCallCloseFrame)>>)
    /\ Len(provider.parts) = 1
    /\ provider.parts[1] = ToolCallPartOf("c1", <<"f">>, <<"{", "}">>, 0, "buffered")

(***************************************************************************)
(* Properties of the repetition guard                                      *)
(***************************************************************************)

\* The place of the i-th delta in its run of identical deltas, from 1.
RunIndex(i) == i - Last({ j \in 1..(i - 1) : deltas[j] # deltas[i] })

\* The deltas at the positions picked, in their order.
DeltasAt(picked) ==
    [k \in 1..Cardinality(picked) |-> deltas[BreakAt(deltas, picked, k)]]

\* The texts reported, in their order.
TextsReported ==
    [k \in 1..Len(provider.parts) |-> provider.parts[k].value]

\* C12 as stated: of a run of up to 21 identical text deltas only the first
\* is reported, deltas 2 to 21 of the run are suppressed; a differing delta
\* starts a new run and is reported.
C12_OnlyFirstOfRunReported ==
    (\A i \in 1..Len(deltas) : RunIndex(i) <= RepeatLimit + 1)
        => TextsReported = DeltasAt({ i \in 1..Len(deltas) : RunIndex(i) = 1 })

\* C12 amended: of a run of identical text deltas the first 20 are reported
\* and the 21st and every further one are suppressed; a differing delta
\* starts a new run and is reported.
C12_FirstTwentyOfRunReported ==
    TextsReported = DeltasAt({ i \in 1..Len(deltas) : RunIndex(i) <= RepeatLimit })

\* A run of 21 identical deltas and then a differing one: 20 of the run and
\* the differing one were reported.
C12_Witness ==
    /\ Len(deltas) = RepeatLimit + 2
    /\ \A i \in 1..(RepeatLimit + 1) : deltas[i] = deltas[1]
    /\ deltas[RepeatLimit + 2] # deltas[1]
    /\ Len(provider.parts) = RepeatLimit + 1
    /\ provider.parts[RepeatLimit + 1].value = deltas[RepeatLimit + 2]

(***************************************************************************)
(* Properties of transformToResponsesFormat                                *)
(***************************************************************************)

TransformReturned == responsesBody.status = "returned"

\* An id with the prefix "fc_": prepended when absent, unchanged when present.
Prefixed(id) == IF StartsWith(id, FcPrefix) THEN id ELSE FcPrefix \o id

FunctionCallItems ==
    { i \in 1..Len(responsesBody.input) : responsesBody.input[i].type = "function_call" }

FunctionCallOutputItems ==
    { i \in 1..Len(responsesBody.input) :
        responsesBody.input[i].type = "function_call_output" }

ToolMessages == { k \in 1..Len(requestMessages) : requestMessages[k].role = "tool" }

\* The ids of the tool calls of the assistant messages before the k-th message.
ToolCallIdsBefore(k) == ToolCallIdMapKeys(SubSeq(requestMessages, 1, k - 1))

ToolCallIdsOfRequest == ToolCallIdsBefore(Len(requestMessages) + 1)

\* How many tool calls the assistant messages carry.
ToolCallCount ==
    Cardinality({ <<k, j>> \in (1..Len(requestMessages)) \X (1..2) :
                    /\ requestMessages[k].role = "assistant"
                    /\ j <= Len(requestMessages[k].tool_calls) })

\* The items hold a function_call_output with the call_id, behind a
\* function_call item with that id.
AnsweredAs(callId) ==
    \E o \in FunctionCallOutputItems : \E c \in FunctionCallItems :
        /\ c < o
        /\ responsesBody.input[o].call_id = callId
        /\ responsesBody.input[c].id = callId

Unmatched(k) ==
    \A id \in ToolCallIdsOfRequest :
        Prefixed(id) # Prefixed(requestMessages[k].tool_call_id)

\* C14: a tool result that matches no tool call of any assistant message of
\* the request yields no function_call_output item, and the translation
\* returns.
C14_UnmatchedResultDropped ==
    TransformReturned =>
        \A k \in ToolMessages :
            Unmatched(k) =>
                \A o \in FunctionCallOutputItems :
                    /\ responsesBody.input[o].call_id # requestMessages[k].tool_call_id
                    /\ responsesBody.input[o].call_id
                          # Prefixed(requestMessages[k].tool_call_id)

\* A request with a tool result that is answered and one that matches no
\* tool call: one function_call_output, for the first.
C14_Witness ==
    /\ TransformReturned
    /\ \E k \in ToolMessages : Unmatched(k) /\ requestMessages[k].tool_call_id = Call2
    /\ \E k \in ToolMessages : ~Unmatched(k)
    /\ Cardinality(FunctionCallOutputItems) = 1

(***************************************************************************)
(* Properties of the retry without the optional parameters                 *)
(***************************************************************************)

\* The errors of the model that are API errors saying "unsupported parameter"
\* or "not supported" in what parseApiError makes of their body: in
\* error.message, or in the first 200 characters of a body without one.
UnsupportedErrors ==
    {BadRequestHead \o UnsupportedBody, BadRequestHead \o NotSupportedBody,
     BadRequestHead \o DetailBody, BadRequestHead \o TwoLineBody,
     BadRequestHead \o CodeBody}

\* The second body is the first without the five optional parameters.
Stripped(first, second) ==
    /\ \A p \in OptionalParameters : second[p] = Absent
    /\ \A p \in (DOMAIN first) \ OptionalParameters : second[p] = first[p]

FirstRejected == Len(rejections) >= 1

RetriedOnce == Len(chatCalls) = 2 /\ Stripped(chatCalls[1], chatCalls[2])

NotRetried == Len(chatCalls) = 1 /\ chatPc = "failed" /\ chatOutcome.status = "threw"

\* client.chat is called at most twice, an error that is no unsupported
\* parameter error is not retried, and a failure of the retry is thrown.
RetryBounds ==
    /\ Len(chatCalls) <= 2
    /\ (FirstRejected /\ rejections[1].message \notin UnsupportedErrors) => NotRetried
    /\ Len(rejections) = 2 =>
          /\ chatPc = "failed"
          /\ chatOutcome = ChatThrew(SurfacedMessage(rejections[2].message))

\* C20 as stated: when the first call of client.chat has failed with an
\* unsupported parameter error, a second call has been made with the body
\* without temperature, top_p, frequency_penalty, presence_penalty and stop;
\* client.chat is called at most twice, no other error is retried and a
\* failure of the retry is thrown.
C20_RetriesOnceOnUnsupported ==
    /\ (FirstRejected /\ rejections[1].message \in UnsupportedErrors) => RetriedOnce
    /\ RetryBounds

\* C20: when the first call of client.chat has failed with an unsupported
\* parameter error and the token was not cancelled by then, a second call has
\* been made with the body without the five optional parameters; when the
\* token was cancelled, no second call is made and "Operation cancelled by
\* user" is thrown; client.chat is called at most twice, no other error is
\* retried and a failure of the retry is thrown.
C20_RetriesOnceUnlessCancelled ==
    /\ (FirstRejected /\ rejections[1].message \in UnsupportedErrors) =>
          IF rejections[1].cancelled
          THEN NotRetried /\ chatOutcome.message = CancelledByUser
          ELSE RetriedOnce
    /\ RetryBounds

\* The first call, with temperature and stop, was rejected with "Unsupported
\* parameter: temperature", the retry went without them and was rejected too.
C20_Witness ==
    /\ Len(rejections) = 2
    /\ rejections[1] = [message |-> BadRequestHead \o UnsupportedBody, cancelled |-> FALSE]
    /\ chatCalls[1].temperature # Absent
    /\ chatCalls[1].stop # Absent
    /\ chatCalls[1].tools # Absent
    /\ RetriedOnce
    /\ chatPc = "failed"

(***************************************************************************)
(* Properties of the request body and of what precedes client.chat         *)
(***************************************************************************)

\* A known limitation whose key is the model id or a part of it names p.
KnownLimited(p) ==
    /\ model.id # <<>>
    /\ \E k \in 1..Len(KNOWN_PARAMETER_LIMITATIONS) :
          /\ Includes(model.id, KNOWN_PARAMETER_LIMITATIONS[k].model)
          /\ p \in KNOWN_PARAMETER_LIMITATIONS[k].limitations

\* The model does not support p: a known limitation says so whatever the
\* model advertises, or the model advertises a list without p.
Unsupported(p) ==
    \/ KnownLimited(p)
    \/ modelInfo.defined /\ modelInfo.listed /\ p \notin modelInfo.supported_openai_params

\* C21: after stripUnsupportedParametersFromRequest the body has none of
\* temperature, stop, frequency_penalty, presence_penalty and top_p that the
\* model does not support, and every other field is as it was.
C21_StripsUnsupportedOnly ==
    chatPc = "stripped" =>
        \A p \in DOMAIN requestBody :
            IF p \in OptionalParameters /\ Unsupported(p)
            THEN requestBody[p] = Absent
            ELSE requestBody[p] = strippedFrom[p]

\* gpt-5.1-codex-mini advertises temperature, stop and frequency_penalty: the
\* known limitation removes temperature and frequency_penalty, the list
\* removes top_p, stop and tools stay.
C21_Witness ==
    /\ chatPc = "stripped"
    /\ model.id = CodexMini
    /\ modelInfo = ModelInfoWith({"temperature", "stop", "frequency_penalty"})
    /\ strippedFrom = BodyWith({"temperature", "stop", "frequency_penalty", "top_p", "tools"})
    /\ requestBody = BodyWith({"stop", "tools"})

\* C22: when trimMessagesToFitBudget has thrown, client.chat has not been
\* called, and the request has failed with the trimmer's error.
C22_TrimFailureBeforeAnyCall ==
    trimOutcome.status = "threw" =>
        /\ chatCalls = <<>>
        /\ chatPc = "failed"
        /\ chatOutcome = ChatThrew(ExceedsTokenLimit)

\* The system message alone is over the budget of one token.
C22_Witness ==
    /\ trimOutcome.status = "threw"
    /\ Len(messages) = 2
    /\ toolsJsonLen = 0
    /\ configUrl # ""
    /\ chatPc = "failed"

(***************************************************************************)
(* Properties of the instructions and the tools of the translated body     *)
(***************************************************************************)

SystemMessages == { k \in 1..Len(requestMessages) : requestMessages[k].role = "system" }

\* The text of the message when its content is a string, no text otherwise.
TextOf(msg) == IF msg.content.kind = "string" THEN <<msg.content.text>> ELSE <<>>

FirstSystem == CHOOSE k \in SystemMessages : \A j \in SystemMessages : k <= j

\* C23: the instructions of the translated body are the text of the first
\* system message, and there are none when its content is no string or when
\* the request has no system message; later system messages change nothing.
C23_InstructionsFromFirstSystem ==
    TransformReturned =>
        responsesBody.instructions =
            IF SystemMessages = {} THEN <<>> ELSE TextOf(requestMessages[FirstSystem])

\* C24: the translated body carries a tool_choice only with a tool list that
\* is not empty: none when the request has no tools, and none when every
\* definition of the request was filtered out.
C24_ToolChoiceOnlyWithTools ==
    (TransformReturned /\ responsesBody.tool_choice # NoToolChoice) =>
        /\ responsesBody.tools.defined
        /\ Len(responsesBody.tools.list) > 0

(***************************************************************************)
(* Properties of the inline tool-call parser                               *)
(***************************************************************************)

\* The data line of a content delta.
ContentLineOf(text) == DataLineOf(ContentFrameOf(text))

\* The state before and after the k-th line handled. The state after the
\* last line handled is provider, and every line is the last one handled in
\* the state that handling it leads to.
BeforeLine(k) == StateAfter(SubSeq(LinesSoFar, 1, k - 1))

AfterLine(k) == StateAfter(SubSeq(LinesSoFar, 1, k))

\* What was reported between two states of one response.
NewParts(before, after) == SubSeq(after.parts, Len(before.parts) + 1, Len(after.parts))

ToolCallsIn(parts) == SelectSeq(parts, LAMBDA p : p.kind = "toolcall")

\* The tail of PrefixTailChunk that is a strict prefix of BEGIN.
HeldBackTail ==
    SliceFrom(PrefixTailChunk, Len(PrefixTailChunk) - LongestPartialPrefix(PrefixTailChunk))

\* The k-th line is a delta without BEGIN whose tail is a strict prefix of
\* BEGIN, and no call is active: the tail is the leftover, what stands before
\* it is reported.
TailHeldBack(k, before, after) ==
    (LinesSoFar[k] = ContentLineOf(PrefixTailChunk) /\ ~before.textToolActive.active) =>
        /\ after.textToolParserBuffer = HeldBackTail
        /\ NewParts(before, after) = <<TextPartOf(<<"a", "b">>)>>

\* The deltas k and k + 1 carry a BEGIN split in two, around a call of f
\* without arguments: the call is reported.
SplitMarkerFound(k, before, after) ==
    (/\ LinesSoFar[k] = ContentLineOf(PrefixTailChunk)
     /\ LinesSoFar[k + 1] = ContentLineOf(MarkerRestChunk)
     /\ ~before.textToolActive.active
     /\ (<<"f", ":", "{", "}">>) \notin before.emittedTextToolCallKeys) =>
        \E i \in 1..Len(NewParts(before, after)) :
            /\ NewParts(before, after)[i].kind = "toolcall"
            /\ NewParts(before, after)[i].name = <<"f">>

\* The delta after the one held back does not go on with BEGIN: what was
\* held back is reported with it.
TailNotLost(k, before, after) ==
    (/\ LinesSoFar[k] = ContentLineOf(PrefixTailChunk)
     /\ LinesSoFar[k + 1] = ContentLineOf(PlainChunk)
     /\ ~before.textToolActive.active) =>
        after.partialAssistantText =
            before.partialAssistantText \o PrefixTailChunk \o PlainChunk

\* C27: outside a call, a delta without BEGIN whose tail is a strict prefix
\* of BEGIN leaves that tail as the leftover and reports what stands before
\* it; with the next delta the leftover makes a BEGIN that opens a call, or
\* is reported as text.
C27_HeldBackPrefixKept ==
    /\ \A k \in 1..handled : TailHeldBack(k, BeforeLine(k), AfterLine(k))
    /\ \A k \in 1..(handled - 1) :
          /\ SplitMarkerFound(k, BeforeLine(k), AfterLine(k + 1))
          /\ TailNotLost(k, BeforeLine(k), AfterLine(k + 1))

\* The k-th line is a delta with BEGIN and a header, without ARG_BEGIN and
\* without END: BEGIN and the header are the leftover.
HeaderHeldBack(k, before, after) ==
    (LinesSoFar[k] = ContentLineOf(HeaderChunk) /\ ~before.textToolActive.active) =>
        after.textToolParserBuffer = HeaderChunk

\* The delta after it brings ARG_BEGIN, the arguments and END: the call is
\* reported with the name and the index of the header.
HeaderCompleted(k, before, after) ==
    (/\ LinesSoFar[k] = ContentLineOf(HeaderChunk)
     /\ LinesSoFar[k + 1] = ContentLineOf(ArgumentsChunk)
     /\ ~before.textToolActive.active) =>
        \E i \in 1..Len(NewParts(before, after)) :
            /\ NewParts(before, after)[i].kind = "toolcall"
            /\ NewParts(before, after)[i].name = <<"f">>
            /\ NewParts(before, after)[i].index = 1

\* C28: outside a call, a delta with BEGIN and a header but neither
\* ARG_BEGIN nor END leaves BEGIN and the header as the leftover, and when
\* the next delta brings the delimiter the call is reported with the name
\* and the index of that header.
C28_PartialHeaderRebuffered ==
    /\ \A k \in 1..handled : HeaderHeldBack(k, BeforeLine(k), AfterLine(k))
    /\ \A k \in 1..(handled - 1) : HeaderCompleted(k, BeforeLine(k), AfterLine(k + 1))

\* The call of EmptyCallChunk: g, with an empty object for its arguments.
EmptyCallPart == ToolCallPartOf(TextToolCallId, <<"g">>, <<"{", "}">>, NoNum, "inline")

EmptyCallKey == <<"g", ":", "{", "}">>

\* The k-th line is a delta where END follows the header of g without
\* ARG_BEGIN, and text follows END; no call was active before it.
EmptyCallReported(k, before, after) ==
    (LinesSoFar[k] = ContentLineOf(EmptyCallChunk) /\ ~before.textToolActive.active) =>
        /\ after.textToolActive = NoActive
        /\ NewParts(before, after) =
              (IF EmptyCallKey \in before.emittedTextToolCallKeys THEN <<>>
               ELSE <<EmptyCallPart>>) \o <<TextPartOf(<<"t", "a", "i", "l">>)>>

\* C29: outside a call, a delta where END follows the header without
\* ARG_BEGIN reports a ToolCall part with the name of the header and an empty
\* object, unless the same call was reported before, leaves no call active,
\* and reports what follows END in the delta as text.
C29_EmptyCallEmitted ==
    handled > 0 => EmptyCallReported(handled, BeforeLine(handled), provider)

\* The only delta was EmptyCallChunk: the call of g, then the text.
C29_Witness ==
    /\ LinesSoFar = <<ContentLineOf(EmptyCallChunk)>>
    /\ provider.parts = <<EmptyCallPart, TextPartOf(<<"t", "a", "i", "l">>)>>
    /\ ~provider.textToolActive.active

\* As EmptyCallReported, whatever was reported before.
EmptyCallReportedAlways(k, before, after) ==
    (LinesSoFar[k] = ContentLineOf(EmptyCallChunk) /\ ~before.textToolActive.active) =>
        /\ after.textToolActive = NoActive
        /\ NewParts(before, after) = <<EmptyCallPart, TextPartOf(<<"t", "a", "i", "l">>)>>

\* C29 as stated: outside a call, every delta where END follows the header
\* without ARG_BEGIN reports a ToolCall part with the name of the header and
\* an empty object, leaves no call active, and reports what follows END as
\* text.
C29_EmptyCallAlwaysEmitted ==
    handled > 0 => EmptyCallReportedAlways(handled, BeforeLine(handled), provider)

\* emitTextToolCallIfValid finds the call among those reported: by its name
\* and index, or without an index by its name and arguments.
AlreadyEmitted(st, name, index, parsed) ==
    IF index # NoNum THEN (name \o <<":">> \o NumberToString(index)) \in st.emittedTextToolCallIds
    ELSE (name \o <<":">> \o parsed.value) \in st.emittedTextToolCallKeys

NameOfCall(call) == IF call.name = NoStr THEN UnknownTool ELSE call.name

\* What one attempt to report the call with the arguments argText reports.
AttemptReports(st, call, parsed) ==
    IF parsed.ok /\ ~AlreadyEmitted(st, NameOfCall(call), call.index, parsed)
    THEN <<ToolCallPartOf(TextToolCallId, NameOfCall(call), parsed.value, call.index,
                          "inline")>>
    ELSE <<>>

\* The call that is active has been reported, unless its arguments so far
\* are no JSON object or the same call was reported before.
ActiveCallTried(st, call, parsed) ==
    (call.active /\ ~call.emitted) =>
        (~parsed.ok \/ AlreadyEmitted(st, NameOfCall(call), call.index, parsed))

\* The delta of InlineChunks that the line carries.
ChunkOf(line) == CHOOSE c \in InlineChunks : ContentLineOf(c) = line

\* The k-th line is the delta c with an END, and a call was active: nothing
\* is reported when the call had been reported, else the arguments up to END
\* are tried once; no call is active afterwards.
EndAttempt(before, after, c, e) ==
    (before.textToolActive.active /\ e # -1) =>
        /\ ~after.textToolActive.active
        /\ ToolCallsIn(NewParts(before, after)) =
              IF before.textToolActive.emitted THEN <<>>
              ELSE AttemptReports(before, before.textToolActive,
                       TryParseJSONObject(before.textToolActive.argBuffer \o Slice(c, 0, e)))

EndAttemptOf(before, after, c) == EndAttempt(before, after, c, IndexOf(c, END))

EndAttemptAt(k, before, after) ==
    (LinesSoFar[k] \in { ContentLineOf(c) : c \in InlineChunks }) =>
        EndAttemptOf(before, after, ChunkOf(LinesSoFar[k]))

\* The k-th line is the done sentinel, and the call active had been
\* reported: the flush reports nothing and leaves no call active.
DoneAfterEmitted(k, before, after) ==
    (/\ IsDoneLine(LinesSoFar[k])
     /\ before.textToolActive.active
     /\ before.textToolActive.emitted) =>
        /\ NewParts(before, after) = <<>>
        /\ ~after.textToolActive.active

\* C30: when a line has been handled and a call is still active, the call
\* has been reported if its arguments so far are a JSON object and no call
\* of the same identity was reported before; a call that has been reported
\* is not reported again by END or by the done sentinel; at END a call not
\* yet reported is tried once more, and no call is active after END.
C30_CollectingEmitsOnce ==
    /\ ActiveCallTried(provider, provider.textToolActive,
                       TryParseJSONObject(provider.textToolActive.argBuffer))
    /\ handled > 0 =>
          /\ EndAttemptAt(handled, BeforeLine(handled), provider)
          /\ DoneAfterEmitted(handled, BeforeLine(handled), provider)

\* A call of f was reported when its arguments came, then END and the done
\* sentinel came: it is the only part.
C30_Witness ==
    /\ LinesSoFar = <<ContentLineOf(WholeArgumentsChunk), ContentLineOf(EndChunk),
                      DataPrefix \o DoneMarker>>
    /\ provider.parts = <<ToolCallPartOf(TextToolCallId, <<"f">>, <<"{", "}">>, NoNum,
                                         "inline")>>
    /\ ~provider.textToolActive.active

\* C30 as stated: when a line has been handled and a call is still active
\* and not reported, its arguments so far are no JSON object.
C30_EmittedOnceParsed ==
    (provider.textToolActive.active /\ ~provider.textToolActive.emitted) =>
        ~TryParseJSONObject(provider.textToolActive.argBuffer).ok

(***************************************************************************)
(* Properties of the lenient flush                                         *)
(***************************************************************************)

\* The buffers whose arguments are a JSON object, in their order.
ValidBuffers(buffers) == SelectSeq(buffers, LAMBDA b : TryParseJSONObject(b.args).ok)

\* The last line handled is the done sentinel: one ToolCall part has been
\* reported for every buffer whose arguments are a JSON object, nothing for
\* the others, and no buffer is left.
LenientFlushDiscards(before, after) ==
    /\ Len(NewParts(before, after)) = Len(ValidBuffers(before.toolCallBuffers))
    /\ \A i \in 1..Len(NewParts(before, after)) :
          /\ NewParts(before, after)[i].kind = "toolcall"
          /\ NewParts(before, after)[i].input =
                TryParseJSONObject(ValidBuffers(before.toolCallBuffers)[i].args).value
    /\ after.toolCallBuffers = <<>>

\* C31: when the done sentinel has been handled, every buffer whose
\* arguments parse as a JSON object has been reported as a ToolCall part,
\* nothing has been reported for the other buffers, and no buffer remains.
C31_LenientFlushDiscards ==
    (handled > 0 /\ IsDoneLine(LinesSoFar[handled]) /\ streamPc # "failed") =>
        LenientFlushDiscards(BeforeLine(handled), provider)

(***************************************************************************)
(* Properties of the retries                                               *)
(***************************************************************************)

\* Every 429 round but the last slept at least 1 ms of the budget, and
\* fetchWithRetry calls fetch() at most DefaultMaxRetries + 1 times a round.
MaxFetches == (netOptions.maxTotalDelayMs + 1) * (DefaultMaxRetries + 1)

\* A 429 comes back from fetchWithRateLimit only when the budget is used up.
Returns429WhenExhausted ==
    (netPc = "done" /\ netResult = Response(429)) =>
        cumulativeDelayMs = netOptions.maxTotalDelayMs

\* C33: when every fetch settles and every timer fires, the call of
\* fetchWithRateLimit ends, whatever upstream answers and whatever its
\* Retry-After headers say; it makes at most MaxFetches fetches, and a 429 is
\* what it returns, once the budget is used up.
C33_SendTerminates ==
    /\ <>(netPc = "done")
    /\ [](fetchCount <= MaxFetches)
    /\ []Returns429WhenExhausted

\* Upstream answered 429 with a hint of 0 to the end: the whole budget was
\* slept 1 ms at a time and the last 429 came back, without a cancellation.
C33_Witness ==
    /\ netPc = "done"
    /\ netResult = Response(429)
    /\ ~cancelled
    /\ lastRound.header = [kind |-> "seconds", ms |-> 0]
    /\ netOptions.maxTotalDelayMs = MaxTotalDelay
    /\ rateLimitAttempt = MaxTotalDelay
    /\ fetchCount = MaxTotalDelay + 1

\* The fetch settled in a way that fetchWithRetry retries: a 5xx response
\* or a network failure.
IsTransient(outcome) == outcome = NetworkFailure \/ (outcome >= 500 /\ outcome < 600)

\* The fetches of the current fetchWithRetry call: those that settled, and
\* the one in flight.
RetryFetches == Len(retryOutcomes) + (IF netPc = "fetching" THEN 1 ELSE 0)

\* fetchWithRetry is in its loop: a fetch is in flight or it sleeps before
\* the next one.
InRetryLoop == netPc \in {"fetching", "retrySleepTry", "retrySleepCatch"}

\* fetchWithRetry came to its end by itself: it returned a response to
\* fetchWithRateLimit or threw the network error.
RetryEnded ==
    /\ retryOutcomes # <<>>
    /\ \/ netPc = "rateLimitSleep"
       \/ netPc = "done" /\ netResult.kind \in {"response", "networkError"}

\* What fetchWithRetry ended with, seen from fetchWithRateLimit.
RetryResult ==
    IF netPc = "rateLimitSleep" THEN Response(429) ELSE netResult

OutcomeResult(outcome) ==
    IF outcome = NetworkFailure THEN NetworkError ELSE Response(outcome)

\* C34: one fetchWithRetry call makes at most DefaultMaxRetries + 1 fetches,
\* responses with a 5xx status and network failures counted together; every
\* fetch but the last settled with a 5xx or a network failure; the call goes
\* on after such a fetch only while retries are left, and it ends with what
\* its last fetch settled with: at once when that is a response without a 5xx
\* status, and after DefaultMaxRetries + 1 fetches with the last 5xx response
\* or the last network error.
C34_TransientRetryBounded ==
    /\ RetryFetches <= DefaultMaxRetries + 1
    /\ \A i \in 1..(Len(retryOutcomes) - 1) : IsTransient(retryOutcomes[i])
    /\ (InRetryLoop /\ ~cancelled) =>
          /\ attempt = RetryFetches - (IF netPc = "fetching" THEN 1 ELSE 0)
          /\ retryOutcomes # <<>> => IsTransient(retryOutcomes[Len(retryOutcomes)])
    /\ RetryEnded =>
          /\ RetryResult = OutcomeResult(retryOutcomes[Len(retryOutcomes)])
          /\ IsTransient(retryOutcomes[Len(retryOutcomes)]) =>
                Len(retryOutcomes) = DefaultMaxRetries + 1

\* A 5xx, a network failure and a 5xx: the retries are used up and the last
\* 5xx response came back.
C34_Witness ==
    /\ retryOutcomes = <<503, NetworkFailure, 503>>
    /\ netPc = "done"
    /\ netResult = Response(503)

(***************************************************************************)
(* Properties of the dispatch of a frame                                   *)
(***************************************************************************)

\* The frame handled as an event-typed frame and as nothing else.
AsEvent(st, f) ==
    IF f.type = "response.output_text.delta" THEN ProcessOutputTextDelta(st, f).st
    ELSE IF f.type = "response.output_item.done" THEN ProcessItemDone(st, f.item).st
    ELSE st

\* The frame handled as a choices frame and as nothing else.
AsChoices(st, f) ==
    ProcessChoice(st, [present |-> TRUE, delta |-> f.choices[1].delta,
                       finish_reason |-> f.choices[1].finish_reason]).st

\* The top-level content, else text, of the frame handled as a text delta.
AsTopLevelText(st, f) ==
    ProcessChoice(st, [present |-> TRUE,
                       delta |-> [content |-> IF Truthy(f.content) THEN f.content
                                                                   ELSE f.text,
                                  tool_calls |-> <<>>],
                       finish_reason |-> ""]).st

\* The precedence of the shapes: the discriminator, then choices[0], then
\* the top-level content or text, then nothing.
Dispatched(st, f) ==
    IF f.type # "" THEN AsEvent(st, f)
    ELSE IF Len(f.choices) > 0 THEN AsChoices(st, f)
    ELSE IF Truthy(f.content) \/ Truthy(f.text) THEN AsTopLevelText(st, f)
    ELSE st

\* The frame of DispatchFrames that the line carries.
DispatchFrameOf(line) == CHOOSE f \in DispatchFrames : DataLineOf(f) = line

\* C35: the line handled last was handled by the first of these that
\* applies, and by no other: as an event-typed frame when it has a type, as a
\* choices frame when it has choices[0], as a text delta of its top-level
\* content or text, and not at all.
C35_DispatchPrecedence ==
    handled > 0 =>
        provider = Dispatched(BeforeLine(handled), DispatchFrameOf(LinesSoFar[handled]))

(***************************************************************************)
(* Properties of the identities of the calls reported                      *)
(***************************************************************************)

\* The part is a ToolCall part whose id came from upstream: the call_id of an
\* item, or the id of a fragment.
HasUpstreamId(part) ==
    /\ part.kind = "toolcall"
    /\ part.callId \notin {TextToolCallId, BufferedToolCallId}

\* C36: no two ToolCall parts reported for one response carry the same
\* upstream id.
C36_UpstreamIdOnce ==
    \A i, j \in 1..Len(provider.parts) :
        (/\ i < j
         /\ HasUpstreamId(provider.parts[i])
         /\ HasUpstreamId(provider.parts[j])) =>
            provider.parts[i].callId # provider.parts[j].callId

(***************************************************************************)
(* Properties of the end of processStreamingResponse                       *)
(***************************************************************************)

\* The streaming state is empty: the buffers, the completed indices, the
\* inline parser's leftover and active call, and the dedup sets.
StreamingStateCleared(st) ==
    /\ st.toolCallBuffers = <<>>
    /\ st.completedToolCallIndices = {}
    /\ st.textToolParserBuffer = <<>>
    /\ ~st.textToolActive.active
    /\ st.emittedTextToolCallKeys = {}
    /\ st.emittedTextToolCallIds = {}

\* C37: when processStreamingResponse has ended, the streaming state is
\* empty.
C37_StateClearedAtEnd ==
    streamPc \in {"done", "failed", "cancelled"} => StreamingStateCleared(provider)

(***************************************************************************)
(* Properties of the order of the translated items                         *)
(***************************************************************************)

\* The items that the first k messages of the request make.
InputUpTo(k) ==
    TranslateFrom([input |-> <<>>, added |-> {}, instructions |-> NoInstructions],
                  ToolCallIdMapKeys(requestMessages), SubSeq(requestMessages, 1, k), 1).input

IsPrefixOf(s, t) == Len(s) <= Len(t) /\ s = SubSeq(t, 1, Len(s))

\* C38: in the input of the translated body every function_call_output
\* item stands behind a function_call item whose id is its call_id, and the
\* items stand in the order of the messages they come from: the items of the
\* first k messages, then those of the next message.
C38_OutputAfterItsCall ==
    TransformReturned =>
        /\ \A o \in FunctionCallOutputItems :
              \E c \in FunctionCallItems :
                  /\ c < o
                  /\ responsesBody.input[c].id = responsesBody.input[o].call_id
        /\ \A k \in 1..Len(requestMessages) : IsPrefixOf(InputUpTo(k - 1), InputUpTo(k))
        /\ responsesBody.input = InputUpTo(Len(requestMessages))

\* A tool result, the assistant message with its call, and the tool result
\* again: the first is dropped, the second stands behind the call.
C38_Witness ==
    /\ TransformReturned
    /\ Len(requestMessages) = 3
    /\ requestMessages[1].role = "tool"
    /\ requestMessages[2].role = "assistant"
    /\ requestMessages[3] = requestMessages[1]
    /\ Len(responsesBody.input) = 2
    /\ responsesBody.input[1].type = "function_call"
    /\ responsesBody.input[2].type = "function_call_output"
    /\ responsesBody.input[2].call_id = responsesBody.input[1].id

(***************************************************************************)
(* Properties of the inline parser under a split of the text               *)
(***************************************************************************)

\* The texts of the content deltas of lines, from the i-th on, in one text.
RECURSIVE TextFrom(_, _)
TextFrom(lines, i) ==
    IF i > Len(lines) THEN <<>> ELSE ChunkOf(lines[i]) \o TextFrom(lines, i + 1)

\* The lines handled so far are content deltas.
OnlyDeltas == \A k \in 1..handled : ~IsDoneLine(LinesSoFar[k])

\* The same ToolCall parts in the same order, and the same visible text.
SameOutput(st, one) ==
    /\ ToolCallsIn(st.parts) = ToolCallsIn(one.parts)
    /\ st.partialAssistantText = one.partialAssistantText

\* C39: the ToolCall parts and the visible text reported for the content
\* deltas handled so far are those reported for one content delta that
\* carries their texts joined.
C39_SplitIndependent ==
    (handled > 0 /\ OnlyDeltas) =>
        SameOutput(provider,
                   ProcessDelta(FreshState, ContentFrameOf(TextFrom(LinesSoFar, 1))).st)

(***************************************************************************)
(* Properties of the indexed assembly                                      *)
(***************************************************************************)

\* The indices that have a buffer.
BufferedIndices(st) == { st.toolCallBuffers[b].idx : b \in 1..Len(st.toolCallBuffers) }

IndexOfFragment(tc) == IF tc.index = NoNum THEN 0 ELSE tc.index

\* The parts reported from a buffer: when its arguments became a JSON
\* object, or by a flush.
FromBuffer(parts) == SelectSeq(parts, LAMBDA p : p.via \in {"buffered", "flushed"})

\* The frame is a choices frame that only brings tool call fragments, all of
\* them for indices in completed.
OnlyCompletedFragments(f, completed) ==
    /\ f.type = ""
    /\ Len(f.choices) > 0
    /\ ~Truthy(f.choices[1].delta.content)
    /\ f.choices[1].finish_reason = ""
    /\ Len(f.choices[1].delta.tool_calls) > 0
    /\ \A i \in 1..Len(f.choices[1].delta.tool_calls) :
          IndexOfFragment(f.choices[1].delta.tool_calls[i]) \in completed

\* The line handled last brought fragments of completed indices only: no
\* buffer is made, no call is reported, the completed indices are the same.
CompletedIgnored(parsed, before, after) ==
    (parsed.ok /\ OnlyCompletedFragments(parsed.value, before.completedToolCallIndices)) =>
        /\ after.toolCallBuffers = before.toolCallBuffers
        /\ after.completedToolCallIndices = before.completedToolCallIndices
        /\ ToolCallsIn(NewParts(before, after)) = <<>>

\* The line handled last: the completed indices stay, and each call reported
\* from a buffer completes one more index.
CompletedGrows(before, after) ==
    /\ before.completedToolCallIndices \subseteq after.completedToolCallIndices
    /\ Cardinality(after.completedToolCallIndices \ before.completedToolCallIndices)
          = Len(FromBuffer(NewParts(before, after)))

LastFrame ==
    IF StartsWith(LinesSoFar[handled], DataPrefix)
    THEN ParseFrame(SliceFrom(LinesSoFar[handled], Len(DataPrefix)))
    ELSE [ok |-> FALSE, value |-> TextDeltaFrame]

====
